---- MODULE Spec2Model ----
(***************************************************************************)
(* Scroll-driven visual effects of the cloudflare-atlas page: the scroll   *)
(* progress calculator, the frame-coalescing coordinator, the title-box    *)
(* phase machine, the panel link stagger and the cable-data fetch chain.   *)
(*                                                                         *)
(* Lengths are integer pixels.  A JavaScript number that results from a    *)
(* division is kept as a pair <<n, d>> with d >= 0: d > 0 is the rational  *)
(* n/d, <<0,0>> is NaN, <<1,0>> is +Infinity and <<-1,0>> is -Infinity.    *)
(***************************************************************************)
EXTENDS Integers, Sequences, FiniteSets, TLC

VARIABLES
    layout,            \* the rendered document: hero, panels, heights
    hooks,             \* the markup hooks present in the document
    pageYOffset,       \* window.pageYOffset
    progressData,      \* what the last calculateContentProgress returned
    progressImpl,      \* which progress calculator produced progressData
    scrollTimeout,     \* main.js scrollTimeout: 0 is undefined, else a frame handle
    frameCallbacks,    \* the browser's list of pending animation-frame callbacks
    inFrame,           \* the browser is part-way through the callbacks of a frame
    initTimers,        \* the initialisation timeouts still pending, in firing order
    lastCalls,         \* the mapper calls of the last updateScrollEffects run
    ringOffset,        \* #progress-circle style.strokeDashoffset
    compassAngle,      \* .compass-outer rotation in degrees
    indicatorTop,      \* .scroll-indicator style.top in percent
    panelStyle,        \* per panel: opacity and divider width
    linksAnimated,     \* per panel: dataset.linksAnimated
    linkClasses,       \* per panel: the links carrying the animate-in class
    timers,            \* pending link timers: per (panel, link) how many
    logoTransform,     \* transform of .hero-image and .master-background
    titleBox,          \* animationState, classList and inline style of the title box
    runsThisFrame,     \* history: updateScrollEffects runs in the current frame
    scrollsSinceFrame, \* history: scroll events since the last frame (saturating)
    startsSinceOff,    \* history: per panel, stagger starts since it was judged off-screen
    lastJudgement,     \* history: per panel, the judgement of the last update
    titleHistory,      \* history: the progress of the last title-box update, and
                       \* the phases met while progress rose stop by stop
    fetchPc,           \* fetchCableData: the await it is suspended at
    attempt,           \* fetchCableData: 0 is the direct request, i the i-th proxy
    requestLog,        \* the requests issued so far, each with how it settled
    inFlight,          \* the requests issued and not yet settled
    response,          \* the Response whose body is being read
    fetchResult,       \* how the promise of fetchCableData settled
    passedProgress,    \* the argument a caller hands to updateScrollbar or
                       \* updateBackgroundTransition
    scrollData,        \* the scroll progress last computed from the raw offset, and by whom
    backgroundColor,   \* document.body.style.backgroundColor and the background of .master-background
    rulerMarks,        \* the children of .ruler-markings, in document order
    scrollRequest,     \* the last window.scrollTo: its target, the mark whose click
                       \* made it, and whether the smooth scroll has completed
    priorProgress,     \* history: the progress of the updateProgressSystem call
                       \* before the last one
    animationData,     \* history: per panel, what calculatePanelAnimation returned
                       \* to the last updatePanelAnimations
    writeLog,          \* history: per mapper module, the (element, property) pairs
                       \* it has written
    moveStart,         \* history: the start position the title box's moving phase
                       \* used on entry, and the one its last update used
    Globe,             \* globeBackground.js Globe: "null" or the constructor
    globe,             \* globeBackground.js globe: 0 is null, else the instance
    globeContainer,    \* globeBackground.js globeContainer: 0 is null, else the element
    isInitialized,     \* globeBackground.js isInitialized
    cablesLoaded,      \* globeBackground.js cablesLoaded
    initializationInProgress, \* globeBackground.js initializationInProgress
    windowGlobe,       \* window.Globe is defined (the CDN script has run)
    documentContainers, \* the #globe-background elements in the document
    created,           \* how many #globe-background elements createElement has made
    instances,         \* the globe instances new Globe has returned
    initCalls,         \* per initializeGlobeBackground call: where it is suspended
                       \* or how it returned
    cableLoads,        \* per globe instance: where its loadCableDataAsync call is
                       \* suspended or how it returned
    dataset,           \* how many paths processCableData makes of the fetched dataset
    destroys           \* history: destroyGlobe calls so far

docVars == <<layout, hooks>>

globeVars == <<Globe, globe, globeContainer, isInitialized, cablesLoaded,
               initializationInProgress, windowGlobe, documentContainers, created,
               instances, initCalls, cableLoads, dataset, destroys>>

historyVars == <<priorProgress, animationData, writeLog, moveStart>>

moreVars == <<historyVars, globeVars>>

frameVars == <<scrollTimeout, frameCallbacks, inFrame>>

progressVars == <<progressData, progressImpl>>

ringVars == <<ringOffset, compassAngle>>

panelVars == <<panelStyle, linksAnimated, linkClasses, timers>>

panelHistory == <<startsSinceOff, lastJudgement>>

frameHistory == <<runsThisFrame, scrollsSinceFrame>>

vars == <<layout, hooks, pageYOffset, progressData, progressImpl, scrollTimeout,
          frameCallbacks, inFrame, initTimers, lastCalls, ringOffset, compassAngle,
          indicatorTop, panelStyle, linksAnimated, linkClasses, timers, logoTransform,
          titleBox, runsThisFrame, scrollsSinceFrame,
          startsSinceOff, lastJudgement, titleHistory,
          fetchPc, attempt, requestLog, inFlight, response, fetchResult,
          passedProgress, scrollData, backgroundColor, rulerMarks,
          scrollRequest, moreVars>>

mapperVars == <<passedProgress, scrollData, backgroundColor, rulerMarks,
              scrollRequest>>

fetchVars == <<fetchPc, attempt, requestLog, inFlight, response, fetchResult>>

pageVars == <<layout, hooks, pageYOffset, progressData, progressImpl, scrollTimeout,
              frameCallbacks, inFrame, initTimers, lastCalls, ringOffset, compassAngle,
              indicatorTop, panelStyle, linksAnimated, linkClasses, timers, logoTransform,
              titleBox, runsThisFrame, scrollsSinceFrame,
              startsSinceOff, lastJudgement, titleHistory,
              passedProgress, scrollData, backgroundColor, rulerMarks,
          scrollRequest, moreVars>>

----------------------------------------------------------------------------
(* Bounds of the model *)

MaxPos == 3          \* panel tops of the progress inputs range over 0..MaxPos
MaxPanels == 2       \* panels in a drawn progress layout
MaxTimers == 2       \* link stagger sequences in flight at once
MaxBurst == 2        \* scroll events counted between two frames (saturating)
MaxScrollable == 2   \* scrollable heights of the scroll-progress inputs range over 0..MaxScrollable
MaxSections == 2     \* sections of a page the scrollbar markings are drawn for
MaxHeading == 6      \* section tops of such a page range over 0..MaxHeading
MaxFeedback == 1     \* click feedback timeouts pending on one mark
MaxGrain == 40       \* progress values handed to the background are k/MaxGrain
MaxViewport == 4     \* viewport heights of the panel rectangles range over 0..MaxViewport
MaxPanelHeight == 3  \* heights of the panel rectangles range over 0..MaxPanelHeight
MaxCalls == 3        \* initializeGlobeBackground calls of one page
MaxDestroys == 2     \* destroyGlobe calls of one page
MaxPaths == 2        \* paths the fetched dataset yields range over 0..MaxPaths

----------------------------------------------------------------------------
(* JavaScript number arithmetic *)

Abs(x) == IF x < 0 THEN -x ELSE x

Sign(x) == IF x > 0 THEN 1 ELSE IF x < 0 THEN -1 ELSE 0

Num(k) == <<k, 1>>

IsNaN(x) == x[1] = 0 /\ x[2] = 0

RECURSIVE Gcd(_, _)
Gcd(a, b) == IF b = 0 THEN a ELSE Gcd(b, a % b)

\* canonical form: lowest terms, positive denominator, signed infinities
Norm(x) ==
    IF x[2] = 0 THEN <<Sign(x[1]), 0>>
    ELSE LET n == IF x[2] < 0 THEN -x[1] ELSE x[1]
             d == Abs(x[2])
             g == Gcd(Abs(n), d)
         IN  <<n \div g, d \div g>>

NaN == <<0, 0>>

\* a / b on integers, as IEEE division gives it
JsDiv(a, b) == Norm(<<a, b>>)

JsAdd(x, y) == Norm(<<x[1] * y[2] + y[1] * x[2], x[2] * y[2]>>)

JsSub(x, y) == Norm(<<x[1] * y[2] - y[1] * x[2], x[2] * y[2]>>)

JsMul(x, y) == Norm(<<x[1] * y[1], x[2] * y[2]>>)

\* x / y on finite rationals
JsQuot(x, y) == Norm(<<x[1] * y[2], x[2] * y[1]>>)

\* x < y; every comparison with NaN is false
JsLt(x, y) ==
    /\ ~IsNaN(x)
    /\ ~IsNaN(y)
    /\ IF x[2] = 0 /\ y[2] = 0 THEN x[1] < y[1]
       ELSE x[1] * y[2] < y[1] * x[2]

JsGe(x, y) == ~IsNaN(x) /\ ~IsNaN(y) /\ ~JsLt(x, y)

JsEq(x, y) == ~IsNaN(x) /\ ~IsNaN(y) /\ ~JsLt(x, y) /\ ~JsLt(y, x)

\* Math.abs on a number
MathAbs(x) == <<Abs(x[1]), x[2]>>

\* Math.min / Math.max: NaN if either argument is NaN
MathMin(x, y) == IF IsNaN(x) \/ IsNaN(y) THEN NaN ELSE IF JsLt(y, x) THEN y ELSE x

MathMax(x, y) == IF IsNaN(x) \/ IsNaN(y) THEN NaN ELSE IF JsLt(x, y) THEN y ELSE x

----------------------------------------------------------------------------
(* The document *)

PanelKinds == {"small", "large", "menu"}

\* element.getBoundingClientRect() of content panel i at scroll offset y
getBoundingClientRect(lay, y, i) ==
    [top    |-> lay.panels[i].top - y,
     bottom |-> lay.panels[i].bottom - y,
     height |-> lay.panels[i].bottom - lay.panels[i].top]

\* document.querySelectorAll(".content-panel-small") etc.: document order
querySelectorAll(lay, kind) ==
    LET idx == [i \in 1..Len(lay.panels) |-> i]
        IsKind(i) == lay.panels[i].kind = kind
    IN  SelectSeq(idx, IsKind)

----------------------------------------------------------------------------
(* progressSystem.js *)

RECURSIVE FindLowestPanelLastTie(_, _, _, _, _)
FindLowestPanelLastTie(lay, y, all, i, best) ==
    IF i > Len(all) THEN best
    ELSE LET absoluteBottom == getBoundingClientRect(lay, y, all[i]).bottom + y
             lowestBottom == getBoundingClientRect(lay, y, best).bottom + y
         IN  IF best = 0 \/ absoluteBottom >= lowestBottom
             THEN FindLowestPanelLastTie(lay, y, all, i + 1, all[i])
             ELSE FindLowestPanelLastTie(lay, y, all, i + 1, best)

\* the forEach that keeps the panel with the greatest absolute bottom;
\* best = 0 stands for lowestBottom = -Infinity
RECURSIVE FindLowestPanel(_, _, _, _, _)
FindLowestPanel(lay, y, all, i, best) ==
    IF i > Len(all) THEN best
    ELSE LET absoluteBottom == getBoundingClientRect(lay, y, all[i]).bottom + y
             lowestBottom == getBoundingClientRect(lay, y, best).bottom + y
         IN  IF best = 0 \/ absoluteBottom > lowestBottom
             THEN FindLowestPanel(lay, y, all, i + 1, all[i])
             ELSE FindLowestPanel(lay, y, all, i + 1, best)

\* the three-way branch on journeyStart / journeyEnd
JourneyProgressNoStartCheck(journeyStart, journeyEnd) ==
    IF journeyEnd <= 0 THEN Num(1)
    ELSE MathMax(Num(0), MathMin(Num(1),
             JsDiv(Abs(journeyStart), Abs(journeyStart) + journeyEnd)))

JourneyProgressWrongTotal(journeyStart, journeyEnd) ==
    IF journeyStart >= 0 THEN Num(0)
    ELSE IF journeyEnd <= 0 THEN Num(1)
    ELSE JsDiv(Abs(journeyStart), journeyEnd)

JourneyProgress(journeyStart, journeyEnd) ==
    IF journeyStart >= 0 THEN Num(0)
    ELSE IF journeyEnd <= 0 THEN Num(1)
    ELSE MathMax(Num(0), MathMin(Num(1),
             JsDiv(Abs(journeyStart), Abs(journeyStart) + journeyEnd)))

calculateContentProgress(lay, y, viewportHeight) ==
    LET smallPanels == querySelectorAll(lay, "small")
        largePanels == querySelectorAll(lay, "large")
        menuPanels == querySelectorAll(lay, "menu")
        allContentPanels == smallPanels \o largePanels \o menuPanels
        lastPanel == FindLowestPanel(lay, y, allContentPanels, 1, 0)
        journeyStart == lay.heroTop - y
        journeyEnd == getBoundingClientRect(lay, y, lastPanel).bottom - viewportHeight
    IN  [smoothProgress |->
             IF lay.hero /\ lastPanel # 0
             THEN JourneyProgress(journeyStart, journeyEnd)
             ELSE Num(0),
         lastPanel |-> lastPanel,
         totalPanels |-> Len(smallPanels)]

\* the earlier calculator: the last small panel in document order, and the
\* journey ends when its top reaches 5% of the viewport height.  Lengths are
\* scaled by 20 so that viewportHeight * 0.05 stays an integer.
calculateContentProgressLegacy(lay, y, viewportHeight) ==
    LET smallPanels == querySelectorAll(lay, "small")
        lastPanel == IF Len(smallPanels) > 0 THEN smallPanels[Len(smallPanels)] ELSE 0
        journeyStart20 == 20 * (lay.heroTop - y)
        journeyEnd20 == 20 * getBoundingClientRect(lay, y, lastPanel).top - viewportHeight
    IN  [smoothProgress |->
             IF lay.hero /\ lastPanel # 0
             THEN JourneyProgress(journeyStart20, journeyEnd20)
             ELSE Num(0),
         lastPanel |-> lastPanel,
         totalPanels |-> Len(smallPanels)]

\* a style property no script has written yet
Unset == <<0, -1>>

updateProgressRingNoCheck(hk, progress, old) ==
    JsMul(<<56548, 100>>, JsSub(Num(1), progress))

\* updateProgressRing: strokeDashoffset = circumference * (1 - progress),
\* circumference 565.48 kept in hundredths
updateProgressRing(hk, progress, old) ==
    IF "progress-circle" \notin hk THEN old
    ELSE JsMul(<<56548, 100>>, JsSub(Num(1), progress))

\* updateCompassRotation turning the compass on from where it stands
updateCompassRotationFromOld(hk, progress, old) ==
    IF "compass-outer" \notin hk THEN old
    ELSE JsAdd(IF old = Unset THEN Num(0) ELSE old, JsMul(progress, Num(360)))

\* updateCompassRotation: rotate(progress * 360 deg)
updateCompassRotation(hk, progress, old) ==
    IF "compass-outer" \notin hk THEN old
    ELSE JsMul(progress, Num(360))

----------------------------------------------------------------------------
(* customScrollbar.js *)

indicatorMinPosition == 2
indicatorMaxPosition == 96
indicatorRange == 94

updateScrollIndicator(hk, scrollProgress, old) ==
    IF "scroll-indicator" \notin hk THEN old
    ELSE LET indicatorPosition ==
                 JsAdd(Num(indicatorMinPosition), JsMul(scrollProgress, Num(indicatorRange)))
         IN  MathMax(Num(indicatorMinPosition),
                     MathMin(Num(indicatorMaxPosition), indicatorPosition))


\* SCROLLBAR_CONFIG.targetViewportPosition = 0.2
targetViewportPosition == <<1, 5>>

\* getSectionData: per section the absolute top of its h1, or of the section
\* itself when it has none
getSectionData(lay) ==
    [i \in 1..Len(lay.sections) |->
        [index |-> i - 1,
         sectionAbsoluteTop |-> lay.sections[i].top,
         h1AbsoluteTop |-> IF lay.sections[i].h1 THEN lay.sections[i].h1Top
                           ELSE lay.sections[i].top]]

\* Math.max(0, h1Position - viewportHeight * targetViewportPosition)
TargetScrollPosition(h1Position, viewportHeight) ==
    MathMax(Num(0), JsSub(Num(h1Position), JsMul(Num(viewportHeight), targetViewportPosition)))

\* where the indicator stands when the heading is at its target: unclamped
MajorMarkPositionUnguarded(h1AbsoluteTop, viewportHeight, documentHeight) ==
    JsAdd(Num(indicatorMinPosition),
          JsMul(JsQuot(TargetScrollPosition(h1AbsoluteTop, viewportHeight),
                       Num(documentHeight)),
                Num(indicatorRange)))

MajorMarkPosition(h1AbsoluteTop, viewportHeight, documentHeight) ==
    LET targetScrollPosition == TargetScrollPosition(h1AbsoluteTop, viewportHeight)
        progress == IF documentHeight > 0
                    THEN JsQuot(targetScrollPosition, Num(documentHeight))
                    ELSE Num(0)
    IN  JsAdd(Num(indicatorMinPosition), JsMul(progress, Num(indicatorRange)))

ClampPosition(position) ==
    MathMax(Num(indicatorMinPosition), MathMin(Num(indicatorMaxPosition), position))

totalMinorMarks == 40

MinorMarkPosition(i) ==
    JsAdd(Num(indicatorMinPosition), JsMul(Num(i), JsDiv(indicatorRange, totalMinorMarks)))

\* Math.abs(minorMarkPosition - majorPos) < 2 for some section
TooCloseToFirstMajor(i, sections, viewportHeight, documentHeight) ==
    /\ Len(sections) > 0
    /\ JsLt(MathAbs(JsSub(MinorMarkPosition(i),
                          MajorMarkPosition(sections[1].h1AbsoluteTop, viewportHeight,
                                            documentHeight))),
            Num(2))

TooCloseToMajor(i, sections, viewportHeight, documentHeight) ==
    \E k \in 1..Len(sections) :
        JsLt(MathAbs(JsSub(MinorMarkPosition(i),
                           MajorMarkPosition(sections[k].h1AbsoluteTop, viewportHeight,
                                             documentHeight))),
             Num(2))

\* a child of .ruler-markings: class, style.top, what its click handler
\* captured, its background colour, and the feedback timeouts pending on it
TopMark ==
    [cls |-> "ruler-mark long clickable-mark", top |-> Num(indicatorMinPosition),
     click |-> "top", h1AbsoluteTop |-> 0, color |-> "markColor", reverts |-> 0]

MajorMark(sectionData, viewportHeight, documentHeight) ==
    [cls |-> "ruler-mark long clickable-mark",
     top |-> ClampPosition(MajorMarkPosition(sectionData.h1AbsoluteTop, viewportHeight,
                                             documentHeight)),
     click |-> "section", h1AbsoluteTop |-> sectionData.h1AbsoluteTop,
     color |-> "markColor", reverts |-> 0]

MinorMark(i) ==
    [cls |-> "ruler-mark short", top |-> MinorMarkPosition(i),
     click |-> "none", h1AbsoluteTop |-> 0, color |-> "markColor", reverts |-> 0]

\* the children of .ruler-markings after createScrollbarMarkings
createScrollbarMarkingsKeepsOld(hk, lay, old) ==
    IF "ruler-markings" \notin hk THEN old
    ELSE LET sections == getSectionData(lay)
             documentHeight == lay.scrollHeight - lay.innerHeight
             viewportHeight == lay.innerHeight
             candidates == [i \in 1..(totalMinorMarks - 1) |-> i]
             Kept(i) == ~TooCloseToMajor(i, sections, viewportHeight, documentHeight)
             keptMinor == SelectSeq(candidates, Kept)
         IN  IF Len(sections) = 0 THEN old
             ELSE <<TopMark>>
                  \o [k \in 1..Len(sections) |->
                         MajorMark(sections[k], viewportHeight, documentHeight)]
                  \o [k \in 1..Len(keptMinor) |-> MinorMark(keptMinor[k])]

createScrollbarMarkingsNoTopMark(hk, lay, old) ==
    IF "ruler-markings" \notin hk THEN old
    ELSE LET sections == getSectionData(lay)
             documentHeight == lay.scrollHeight - lay.innerHeight
             viewportHeight == lay.innerHeight
             candidates == [i \in 1..(totalMinorMarks - 1) |-> i]
             Kept(i) == ~TooCloseToMajor(i, sections, viewportHeight, documentHeight)
             keptMinor == SelectSeq(candidates, Kept)
         IN  IF Len(sections) = 0 THEN <<>>
             ELSE [k \in 1..Len(sections) |->
                         MajorMark(sections[k], viewportHeight, documentHeight)]
                  \o [k \in 1..Len(keptMinor) |-> MinorMark(keptMinor[k])]

createScrollbarMarkings(hk, lay, old) ==
    IF "ruler-markings" \notin hk THEN old
    ELSE LET sections == getSectionData(lay)
             documentHeight == lay.scrollHeight - lay.innerHeight
             viewportHeight == lay.innerHeight
             candidates == [i \in 1..(totalMinorMarks - 1) |-> i]
             Kept(i) == ~TooCloseToMajor(i, sections, viewportHeight, documentHeight)
             keptMinor == SelectSeq(candidates, Kept)
         IN  IF Len(sections) = 0 THEN <<>>
             ELSE <<TopMark>>
                  \o [k \in 1..Len(sections) |->
                         MajorMark(sections[k], viewportHeight, documentHeight)]
                  \o [k \in 1..Len(keptMinor) |-> MinorMark(keptMinor[k])]

\* scrollToH1AtViewportPosition unaware of the viewport
ScrollTargetNoOffset(mark, viewportHeight) ==
    IF mark.click = "top" THEN Num(0) ELSE Num(mark.h1AbsoluteTop)

\* the top handed to window.scrollTo by the click handler of a mark
ScrollTarget(mark, viewportHeight) ==
    IF mark.click = "top" THEN Num(0)
    ELSE TargetScrollPosition(mark.h1AbsoluteTop, viewportHeight)

\* where a scroll to `target` ends: the browser keeps the offset within the
\* scrollable range and on whole pixels
ScrollEnd(lay, target) ==
    LET maxScroll == lay.scrollHeight - lay.innerHeight
        px == target[1] \div target[2]
    IN  IF px < 0 THEN 0 ELSE IF px > maxScroll THEN maxScroll ELSE px

----------------------------------------------------------------------------
(* panelAnimations.js *)

\* calculatePanelAnimation without the Math.max(0, ...) of the fade
calculatePanelAnimationNoFloor(rect, viewportHeight) ==
    LET panelTop == rect.top
        panelBottom == rect.bottom
        belowMid == 2 * panelTop + rect.height > viewportHeight
        visible == panelBottom > 0 /\ panelTop < viewportHeight
    IN  [animationProgress |->
             IF ~visible THEN Num(0)
             ELSE IF belowMid
                  THEN JsSub(Num(1),
                             JsDiv(2 * panelTop + rect.height - viewportHeight,
                                   viewportHeight))
                  ELSE Num(1),
         isFullyVisible |-> visible /\ ~belowMid,
         isVisible |-> visible,
         isOffScreen |-> panelTop > viewportHeight \/ panelBottom < 0]

calculatePanelAnimation(rect, viewportHeight) ==
    LET panelTop == rect.top
        panelBottom == rect.bottom
        \* panelCenter > viewportMidpoint, both doubled
        belowMid == 2 * panelTop + rect.height > viewportHeight
        visible == panelBottom > 0 /\ panelTop < viewportHeight
    IN  [animationProgress |->
             IF ~visible THEN Num(0)
             ELSE IF belowMid
                  THEN MathMax(Num(0),
                           JsSub(Num(1),
                                 JsDiv(2 * panelTop + rect.height - viewportHeight,
                                       viewportHeight)))
                  ELSE Num(1),
         isFullyVisible |-> visible /\ ~belowMid,
         isVisible |-> visible,
         isOffScreen |-> panelTop > viewportHeight \/ panelBottom < 0]

\* opacity = minOpacity + progress * opacityRange = 0.2 + progress * 0.8
updatePanelOpacity(animationProgress) ==
    JsAdd(<<2, 10>>, JsMul(animationProgress, <<8, 10>>))

\* width = progress * dividerAnimationSpeed (percent)
updatePanelDivider(hasDivider, animationProgress, old) ==
    IF hasDivider THEN JsMul(animationProgress, Num(100)) ELSE old

\* updatePanelLinks on one panel: the new data-links-animated flag, whether
\* the links' animate-in class is removed, whether the stagger timers start
updatePanelLinksNoReset(flag, isFullyVisible, isOffScreen) ==
    IF isOffScreen
    THEN [flag |-> flag, reset |-> TRUE, start |-> FALSE]
    ELSE IF isFullyVisible /\ flag # "true"
         THEN [flag |-> "true", reset |-> FALSE, start |-> TRUE]
         ELSE [flag |-> flag, reset |-> FALSE, start |-> FALSE]

updatePanelLinks(flag, isFullyVisible, isOffScreen) ==
    IF isOffScreen
    THEN [flag |-> "false", reset |-> TRUE, start |-> FALSE]
    ELSE IF isFullyVisible /\ flag # "true"
         THEN [flag |-> "true", reset |-> FALSE, start |-> TRUE]
         ELSE [flag |-> flag, reset |-> FALSE, start |-> FALSE]

\* the panels updatePanelAnimations walks: small and large, not the menu
AnimatedPanels(lay) ==
    {i \in 1..Len(lay.panels) : lay.panels[i].kind \in {"small", "large"}}

PanelJudgement(lay, y, viewportHeight, i) ==
    calculatePanelAnimation(getBoundingClientRect(lay, y, i), viewportHeight)

----------------------------------------------------------------------------
(* scrollBehavior.js *)

resetPosition == [sign |-> "", px |-> 0]

\* handleLogoMovement: the transform written to .hero-image and to
\* .master-background (the same value), or old when nothing is written
handleLogoMovement(hk, lay, y, pd, old) ==
    IF pd.lastPanel = 0 \/ "hero-image" \notin hk \/ "master-background" \notin hk
    THEN old
    ELSE LET panelTop == getBoundingClientRect(lay, y, pd.lastPanel).top
         IN  IF JsGe(pd.smoothProgress, Num(1)) /\ panelTop <= 0
             THEN [sign |-> "-", px |-> Abs(panelTop)]
             ELSE resetPosition

\* calculateScrollData: Math.min(1, Math.max(0, scrollPosition / documentHeight))
calculateScrollData(lay, y) ==
    LET documentHeight == lay.scrollHeight - lay.innerHeight
    IN  [scrollPosition |-> y,
         documentHeight |-> documentHeight,
         scrollProgress |-> MathMin(Num(1), MathMax(Num(0), JsDiv(y, documentHeight))),
         viewportHeight |-> lay.innerHeight]

----------------------------------------------------------------------------
(* titleBoxing.js *)

boxingStartPercent == <<1, 100>>
boxingEndPercent == <<13, 100>>
moveStartPercent == <<13, 100>>
moveEndPercent == <<35, 100>>
makeScrollablePercent == <<40, 100>>

calculateScrollProgress(lay, y) ==
    MathMin(Num(1), JsDiv(y, lay.scrollHeight - lay.innerHeight))

\* the conditions of the five branches, as written
IdleBranch(p) == JsLt(p, boxingStartPercent)

BoxingBranch(p) == JsGe(p, boxingStartPercent) /\ JsLt(p, boxingEndPercent)

BoxedBranch(p) == JsGe(p, boxingEndPercent) /\ JsLt(p, moveStartPercent)

MovingBranch(p) == JsGe(p, moveStartPercent) /\ JsLt(p, makeScrollablePercent)

ScrollableBranch(p) == JsGe(p, makeScrollablePercent)

NoTransform == [kind |-> "", y |-> Num(0), scale |-> Num(1)]

CenterTransform == [kind |-> "center", y |-> Num(0), scale |-> Num(1)]

\* position: fixed; top: 50%; left: 50%; transform: translate(-50%, -50%)
FixedAtCenter(style) ==
    [style EXCEPT !.position = "fixed", !.top = "50%", !.left = "50%",
                  !.transform = CenterTransform]

\* the whole title box: tb = [state, classes, style]
updateTitleBoxing(tb, lay, y) ==
    IF ~tb.state.isInitialized THEN tb
    ELSE
    LET scrollProgress == calculateScrollProgress(lay, y)
    IN
    IF IdleBranch(scrollProgress) THEN
        [state |-> [tb.state EXCEPT !.currentPhase = "idle"],
         classes |-> tb.classes \ {"boxing", "boxed", "moved-to-top", "scrollable"},
         style |-> FixedAtCenter(tb.style)]
    ELSE IF BoxingBranch(scrollProgress) THEN
        LET fillProgress == JsQuot(JsSub(scrollProgress, boxingStartPercent),
                                   JsSub(boxingEndPercent, boxingStartPercent))
            fillOpacity == MathMin(MathMax(fillProgress, Num(0)), Num(1))
        IN  [state |-> [tb.state EXCEPT !.currentPhase = "boxing"],
             classes |-> (tb.classes \cup {"boxing"})
                             \ {"boxed", "moved-to-top", "scrollable"},
             style |-> [FixedAtCenter(tb.style) EXCEPT !.fillOpacity = fillOpacity]]
    ELSE IF BoxedBranch(scrollProgress) THEN
        [state |-> [tb.state EXCEPT !.currentPhase = "boxed"],
         classes |-> (tb.classes \cup {"boxed"})
                         \ {"boxing", "moved-to-top", "scrollable"},
         style |-> [FixedAtCenter(tb.style) EXCEPT !.fillOpacity = Num(1)]]
    ELSE IF MovingBranch(scrollProgress) THEN
        LET moveProgress == JsQuot(JsSub(scrollProgress, moveStartPercent),
                                   JsSub(makeScrollablePercent, moveStartPercent))
            entered == IF tb.state.currentPhase # "moved"
                       THEN [tb.style EXCEPT !.position = "absolute", !.top = "0",
                                             !.left = "50%", !.transition = "none"]
                       ELSE tb.style
            startYpx == JsDiv(2 * y + lay.innerHeight - lay.titleHeight, 2)
            endYpx == Num(32)
            currentYpx == JsAdd(startYpx, JsMul(JsSub(endYpx, startYpx), moveProgress))
            scale == JsSub(Num(1), JsMul(moveProgress, <<3, 10>>))
        IN  [state |-> [tb.state EXCEPT !.currentPhase = "moved"],
             classes |-> (tb.classes \cup {"boxed"}) \ {"moved-to-top", "scrollable"},
             style |-> [entered EXCEPT !.transform =
                            [kind |-> "move", y |-> currentYpx, scale |-> scale]]]
    ELSE IF ScrollableBranch(scrollProgress) THEN
        [state |-> [tb.state EXCEPT !.currentPhase = "scrollable"],
         classes |-> tb.classes \cup {"boxed", "moved-to-top", "scrollable"},
         style |-> [tb.style EXCEPT !.transform = NoTransform]]
    ELSE tb

\* startYpx: the document position of a box fixed at the viewport centre
StartYpx(lay, y) == JsDiv(2 * y + lay.innerHeight - lay.titleHeight, 2)

\* cleanupTitleBoxing
cleanupTitleBoxing(tb) ==
    IF ~tb.state.isInitialized THEN tb
    ELSE [state |-> [isInitialized |-> FALSE, currentPhase |-> "idle"],
          classes |-> tb.classes \ {"boxing", "boxed", "moved-to-top", "scrollable"},
          style |-> [tb.style EXCEPT !.fillOpacity = Unset]]

\* initializeTitleBoxing
initializeTitleBoxing(hk, tb) ==
    IF "animated-title-box" \notin hk THEN tb
    ELSE [tb EXCEPT !.state.isInitialized = TRUE]

----------------------------------------------------------------------------
(* main.js: the coordinator *)

RECURSIVE SumOver(_, _)
SumOver(f, S) ==
    IF S = {} THEN 0
    ELSE LET x == CHOOSE x \in S : TRUE IN f[x] + SumOver(f, S \ {x})

Min(S) == CHOOSE x \in S : \A z \in S : x <= z

\* requestAnimationFrame returns a handle no pending callback and no kept
\* reference carries
FreshHandle(used) == Min({h \in 1..(Cardinality(used) + 1) : h \notin used})

\* handleScroll: if (scrollTimeout) cancelAnimationFrame(scrollTimeout)
CancelNothing(timeout, callbacks) == callbacks

CancelPrevious(timeout, callbacks) ==
    IF timeout # 0 THEN callbacks \ {timeout} ELSE callbacks

\* handleScroll that cancels the pending callback and requests none
handleScrollCancelOnly ==
    /\ frameCallbacks' = CancelPrevious(scrollTimeout, frameCallbacks)
    /\ scrollTimeout' = 0

handleScroll ==
    LET kept == CancelPrevious(scrollTimeout, frameCallbacks)
        handle == FreshHandle(frameCallbacks \cup {scrollTimeout})
    IN  /\ frameCallbacks' = kept \cup {handle}
        /\ scrollTimeout' = handle

\* the mappers updateScrollEffects calls, in call order
UpdateScrollEffectsCalls ==
    <<"updateProgressSystem", "updateScrollbar", "updatePanelAnimations",
      "updateScrollBehavior", "updateTitleBoxing">>

LinkSlots(lay) ==
    {<<i, k>> : i \in 1..Len(lay.panels), k \in 1..2} \cap
    {<<i, k>> \in (1..Len(lay.panels)) \X (1..2) : k <= lay.panels[i].links}

JudgementName(j) ==
    IF j.isOffScreen THEN "off"
    ELSE IF j.isFullyVisible THEN "full"
    ELSE IF j.isVisible THEN "partial"
    ELSE "edge"

\* updatePanelAnimations(viewportHeight) over every small and large panel
RunUpdatePanelAnimations(viewportHeight) ==
    LET J(i) == PanelJudgement(layout, pageYOffset, viewportHeight, i)
        L(i) == updatePanelLinks(linksAnimated[i], J(i).isFullyVisible, J(i).isOffScreen)
        walked == AnimatedPanels(layout)
        started == {i \in walked : L(i).start /\ layout.panels[i].links > 0}
    IN  /\ SumOver(timers, DOMAIN timers) + Cardinality(started) <= MaxTimers
        /\ panelStyle' =
               [i \in DOMAIN panelStyle |->
                   IF i \in walked
                   THEN [opacity |-> updatePanelOpacity(J(i).animationProgress),
                         dividerWidth |->
                             updatePanelDivider(layout.panels[i].divider,
                                                J(i).animationProgress,
                                                panelStyle[i].dividerWidth)]
                   ELSE panelStyle[i]]
        /\ linksAnimated' =
               [i \in DOMAIN linksAnimated |->
                   IF i \in walked THEN L(i).flag ELSE linksAnimated[i]]
        /\ linkClasses' =
               [i \in DOMAIN linkClasses |->
                   IF i \in walked /\ L(i).reset THEN {} ELSE linkClasses[i]]
        /\ timers' =
               [sl \in DOMAIN timers |->
                   IF sl[1] \in started /\ sl[2] = 1 THEN timers[sl] + 1 ELSE timers[sl]]
        /\ startsSinceOff' =
               [i \in DOMAIN startsSinceOff |->
                   IF i \notin walked THEN startsSinceOff[i]
                   ELSE IF J(i).isOffScreen THEN 0
                   ELSE IF L(i).start THEN startsSinceOff[i] + 1
                   ELSE startsSinceOff[i]]
        /\ lastJudgement' =
               [i \in DOMAIN lastJudgement |->
                   IF i \in walked THEN JudgementName(J(i)) ELSE lastJudgement[i]]

\* the stops between offset 0 and the end of the scrollable range, ascending
RiseStops(lay) ==
    SelectSeq(lay.stops, LAMBDA y : 0 <= y /\ y <= lay.scrollHeight - lay.innerHeight)

IndexOf(seq, x) ==
    IF \E k \in 1..Len(seq) : seq[k] = x
    THEN CHOOSE k \in 1..Len(seq) : seq[k] = x
    ELSE 0

\* history of a rise: idx stops were updated one after the other from the
\* first, and trail lists the phases recorded on the way
RiseAfter(r, lay, y, phase, p) ==
    LET k == IndexOf(RiseStops(lay), y)
    IN  IF k = 0 THEN [idx |-> 0, trail |-> <<>>, progress |-> p]
        ELSE IF k = 1 THEN [idx |-> 1, trail |-> <<phase>>, progress |-> p]
        ELSE IF k = r.idx THEN [r EXCEPT !.progress = p]
        ELSE IF k = r.idx + 1
             THEN [idx |-> k,
                   trail |-> IF r.trail[Len(r.trail)] = phase THEN r.trail
                             ELSE Append(r.trail, phase),
                   progress |-> p]
        ELSE [idx |-> 0, trail |-> <<>>, progress |-> p]

\* updateScrollEffects: the document scroll progress handed to updateScrollbar
actualScrollProgress(lay, y) ==
    LET viewportHeight == lay.innerHeight
        documentHeight == lay.scrollHeight - viewportHeight
    IN  MathMin(Num(1), MathMax(Num(0), JsDiv(y, documentHeight)))

\* updateScrollEffects: every mapper call of one run
RunUpdateScrollEffects ==
    LET viewportHeight == layout.innerHeight
        pd == calculateContentProgress(layout, pageYOffset, viewportHeight)
        tb == updateTitleBoxing(titleBox, layout, pageYOffset)
    IN  /\ progressData' = pd
        /\ progressImpl' = "current"
        /\ ringOffset' = updateProgressRing(hooks, pd.smoothProgress, ringOffset)
        /\ compassAngle' = updateCompassRotation(hooks, pd.smoothProgress, compassAngle)
        /\ indicatorTop' = updateScrollIndicator(hooks, actualScrollProgress(layout, pageYOffset),
                                                 indicatorTop)
        /\ RunUpdatePanelAnimations(viewportHeight)
        /\ logoTransform' = handleLogoMovement(hooks, layout, pageYOffset, pd, logoTransform)
        /\ titleBox' = tb
        /\ titleHistory' = IF titleBox.state.isInitialized
                   THEN RiseAfter(titleHistory, layout, pageYOffset, tb.state.currentPhase,
                                          calculateScrollProgress(layout, pageYOffset))
                   ELSE titleHistory
        /\ lastCalls' = UpdateScrollEffectsCalls

----------------------------------------------------------------------------
(* Initial values shared by the specifications *)

NoProgressData == [smoothProgress |-> Num(0), lastPanel |-> 0, totalPanels |-> 0]

AllHooks ==
    {"progress-circle", "compass-outer", "scroll-indicator", "hero-image",
     "master-background", "animated-title-box"}

NoStyle ==
    [position |-> "", top |-> "", left |-> "", transform |-> NoTransform,
     transition |-> "", fillOpacity |-> Unset]

\* after initializeTitleBoxing
InitialTitleBox(hk) ==
    [state |-> [isInitialized |-> "animated-title-box" \in hk, currentPhase |-> "idle"],
     classes |-> {},
     style |-> NoStyle]

\* everything the page scripts own, before any update has run
InitPage(lay, hk) ==
    /\ progressData = NoProgressData
    /\ progressImpl = "none"
    /\ scrollTimeout = 0
    /\ frameCallbacks = {}
    /\ inFrame = FALSE
    /\ lastCalls = <<>>
    /\ ringOffset = Unset
    /\ compassAngle = Unset
    /\ indicatorTop = Unset
    /\ panelStyle = [i \in 1..Len(lay.panels) |-> [opacity |-> Unset, dividerWidth |-> Unset]]
    /\ linksAnimated = [i \in 1..Len(lay.panels) |-> "unset"]
    /\ linkClasses = [i \in 1..Len(lay.panels) |-> {}]
    /\ logoTransform = [sign |-> "unset", px |-> 0]
    /\ titleBox = InitialTitleBox(hk)
    /\ runsThisFrame = 0
    /\ scrollsSinceFrame = 0
    /\ startsSinceOff = [i \in 1..Len(lay.panels) |-> 0]
    /\ lastJudgement = [i \in 1..Len(lay.panels) |-> "none"]
    /\ titleHistory = [idx |-> 0, trail |-> <<>>, progress |-> Unset]

NoResponse == [ok |-> FALSE, body |-> [kind |-> "none", features |-> <<>>, wrappedOk |-> FALSE]]

\* fetchCableData has not been called
InitFetchIdle ==
    /\ fetchPc = "idle"
    /\ attempt = 0
    /\ requestLog = <<>>
    /\ inFlight = {}
    /\ response = NoResponse
    /\ fetchResult = [status |-> "pending", value |-> <<>>]

NoMoveStart == [entry |-> Unset, used |-> Unset]

\* the modules that map a progress to element properties
Mappers ==
    {"progressSystem", "customScrollbar", "panelAnimations", "scrollBehavior",
     "titleBoxing", "backgroundTransition"}

InitHistoryIdle ==
    /\ priorProgress = Unset
    /\ animationData = <<>>
    /\ writeLog = [m \in Mappers |-> {}]
    /\ moveStart = NoMoveStart

\* the module state of globeBackground.js as declared, no call made
InitGlobeModule ==
    /\ Globe = "null"
    /\ globe = 0
    /\ globeContainer = 0
    /\ isInitialized = FALSE
    /\ cablesLoaded = FALSE
    /\ initializationInProgress = FALSE
    /\ documentContainers = {}
    /\ created = 0
    /\ instances = {}
    /\ initCalls = [c \in 1..MaxCalls |-> "new"]
    /\ cableLoads = [g \in 1..MaxCalls |-> "none"]
    /\ destroys = 0

InitMoreIdle ==
    /\ InitHistoryIdle
    /\ InitGlobeModule
    /\ windowGlobe = FALSE
    /\ dataset = 1

NoScrollRequest == [target |-> Unset, by |-> 0, done |-> FALSE]

\* neither style has been written
NoBackground == [body |-> [fn |-> "none"], master |-> [fn |-> "none"]]

\* no caller has handed over a progress, nothing is computed or drawn yet
InitMappersIdle ==
    /\ passedProgress = Unset
    /\ scrollData = [by |-> "none", progress |-> Unset]
    /\ backgroundColor = NoBackground
    /\ rulerMarks = <<>>
    /\ scrollRequest = NoScrollRequest

----------------------------------------------------------------------------
(* Specification SpecProgress: the progress calculators on drawn inputs *)

ProgressPanels ==
    {[kind |-> k, top |-> t, bottom |-> t + 1] : k \in PanelKinds, t \in 0..MaxPos}

ProgressPanelLists ==
    UNION {[1..n -> ProgressPanels] : n \in 0..MaxPanels}

ProgressLayouts ==
    {[hero |-> h, heroTop |-> 0, panels |-> ps, innerHeight |-> vh,
      scrollHeight |-> MaxPos + 1] :
        h \in BOOLEAN, ps \in ProgressPanelLists, vh \in 1..2}

InitProgress ==
    /\ layout \in ProgressLayouts
    /\ hooks = {}
    /\ pageYOffset \in -1..(MaxPos + 1)
    /\ initTimers = <<>>
    /\ timers = <<>>
    /\ InitPage(layout, hooks)
    /\ InitMoreIdle
    /\ InitFetchIdle
    /\ InitMappersIdle

CalcProgress ==
    /\ progressImpl = "none"
    /\ progressData' = calculateContentProgress(layout, pageYOffset, layout.innerHeight)
    /\ progressImpl' = "current"
    /\ UNCHANGED <<mapperVars, moreVars, fetchVars, docVars, pageYOffset, frameVars, initTimers, lastCalls, ringVars,
                   indicatorTop, panelVars, logoTransform, titleBox, frameHistory,
                   panelHistory, titleHistory>>

CalcProgressLegacy ==
    /\ progressImpl = "none"
    /\ progressData' = calculateContentProgressLegacy(layout, pageYOffset, layout.innerHeight)
    /\ progressImpl' = "legacy"
    /\ UNCHANGED <<mapperVars, moreVars, fetchVars, docVars, pageYOffset, frameVars, initTimers, lastCalls, ringVars,
                   indicatorTop, panelVars, logoTransform, titleBox, frameHistory,
                   panelHistory, titleHistory>>

NextProgress == CalcProgress \/ CalcProgressLegacy

SpecProgress == InitProgress /\ [][NextProgress]_vars

----------------------------------------------------------------------------
(* Specification Spec: scroll events, animation frames and timers *)

LongPage ==
    [hero |-> TRUE, heroTop |-> 0,
     panels |-> <<[kind |-> "small", top |-> 30, bottom |-> 50, links |-> 2, divider |-> TRUE],
                  [kind |-> "large", top |-> 70, bottom |-> 120, links |-> 0, divider |-> FALSE]>>,
     innerHeight |-> 20, scrollHeight |-> 120, titleHeight |-> 4,
     stops |-> <<0, 1, 13, 40, 100>>]

\* a page that fits the viewport: nothing to scroll
ShortPage ==
    [hero |-> TRUE, heroTop |-> 0,
     panels |-> <<[kind |-> "small", top |-> 5, bottom |-> 15, links |-> 1, divider |-> TRUE]>>,
     innerHeight |-> 20, scrollHeight |-> 20, titleHeight |-> 4,
     stops |-> <<-1, 0, 1>>]

MainLayouts == {LongPage, ShortPage}

Init ==
    /\ layout \in MainLayouts
    /\ hooks = AllHooks
    /\ pageYOffset = 0
    /\ initTimers = <<"panels", "app">>
    /\ timers = [sl \in LinkSlots(layout) |-> 0]
    /\ InitPage(layout, hooks)
    /\ InitMoreIdle
    /\ InitFetchIdle
    /\ InitMappersIdle

\* a scroll event: the offset has changed and handleScroll runs
ScrollEvent ==
    /\ ~inFrame
    /\ \E y \in {layout.stops[k] : k \in 1..Len(layout.stops)} \ {pageYOffset} :
           pageYOffset' = y
    /\ handleScroll
    /\ scrollsSinceFrame' = IF scrollsSinceFrame < MaxBurst THEN scrollsSinceFrame + 1
                            ELSE scrollsSinceFrame
    /\ UNCHANGED <<mapperVars, moreVars, fetchVars, docVars, progressVars, inFrame, initTimers, lastCalls, ringVars,
                   indicatorTop, panelVars, logoTransform, titleBox, runsThisFrame,
                   panelHistory, titleHistory>>

\* the browser runs one pending frame callback: updateScrollEffects
AnimationFrame ==
    /\ frameCallbacks # {}
    /\ LET h == Min(frameCallbacks)
       IN  /\ frameCallbacks' = frameCallbacks \ {h}
           /\ inFrame' = (frameCallbacks \ {h} # {})
    /\ runsThisFrame' = IF inFrame THEN runsThisFrame + 1 ELSE 1
    /\ scrollsSinceFrame' = 0
    /\ RunUpdateScrollEffects
    /\ UNCHANGED <<mapperVars, moreVars, fetchVars, docVars, pageYOffset, scrollTimeout, initTimers>>

\* initializeApp's timeout: the first updateScrollEffects, outside any frame
InitialUpdate ==
    /\ ~inFrame
    /\ initTimers # <<>>
    /\ Head(initTimers) = "app"
    /\ initTimers' = Tail(initTimers)
    /\ RunUpdateScrollEffects
    /\ UNCHANGED <<mapperVars, moreVars, fetchVars, docVars, pageYOffset, frameVars, frameHistory>>

\* initializePanelAnimations' timeout: updatePanelAnimations(window.innerHeight)
InitialPanelUpdate ==
    /\ ~inFrame
    /\ initTimers # <<>>
    /\ Head(initTimers) = "panels"
    /\ initTimers' = Tail(initTimers)
    /\ RunUpdatePanelAnimations(layout.innerHeight)
    /\ UNCHANGED <<mapperVars, moreVars, fetchVars, docVars, pageYOffset, frameVars, frameHistory, progressVars, lastCalls,
                   ringVars, indicatorTop, logoTransform, titleBox, titleHistory>>

\* a link timer fires: the link gets the animate-in class; the next link's
\* timer of the same sequence is due 150 ms later
RunLinkTimer ==
    /\ ~inFrame
    /\ \E sl \in DOMAIN timers :
           /\ timers[sl] > 0
           /\ linkClasses' = [linkClasses EXCEPT ![sl[1]] = @ \cup {sl[2]}]
           /\ timers' =
                  [t \in DOMAIN timers |->
                      IF t = sl THEN timers[t] - 1
                      ELSE IF t = <<sl[1], sl[2] + 1>> THEN timers[t] + 1
                      ELSE timers[t]]

TimerFire ==
    /\ RunLinkTimer
    /\ UNCHANGED <<mapperVars, moreVars, fetchVars, docVars, pageYOffset, frameVars, frameHistory, progressVars, initTimers,
                   lastCalls, ringVars, indicatorTop, panelStyle, linksAnimated,
                   logoTransform, titleBox, panelHistory, titleHistory>>

Next ==
    \/ ScrollEvent
    \/ AnimationFrame
    \/ InitialUpdate
    \/ InitialPanelUpdate
    \/ TimerFire

Spec == Init /\ [][Next]_vars

----------------------------------------------------------------------------
(* Specification SpecHooks: one frame update on a document that lacks hooks *)

\* the hooks the scripts look up by id or class
MarkupHooks == AllHooks \cup {"ruler-markings"}

NoPanelPage == [LongPage EXCEPT !.panels = <<>>]

NoHeroPage == [LongPage EXCEPT !.hero = FALSE]

HookLayouts == {LongPage, ShortPage, NoPanelPage, NoHeroPage}

InitHooks ==
    /\ layout \in HookLayouts
    /\ hooks \in SUBSET MarkupHooks
    /\ pageYOffset \in {layout.stops[k] : k \in 1..Len(layout.stops)}
    /\ initTimers = <<>>
    /\ timers = [sl \in LinkSlots(layout) |-> 0]
    /\ InitPage(layout, hooks)
    /\ InitMoreIdle
    /\ InitFetchIdle
    /\ InitMappersIdle

\* the first updateScrollEffects of the page
HookFrame ==
    /\ progressImpl = "none"
    /\ RunUpdateScrollEffects
    /\ UNCHANGED <<mapperVars, moreVars, fetchVars, docVars, pageYOffset, frameVars, initTimers,
                   frameHistory>>

NextHooks == HookFrame

SpecHooks == InitHooks /\ [][NextHooks]_vars

----------------------------------------------------------------------------
(* Specification SpecScroll: scroll progress from the raw offset, and the
   scrollbar indicator *)

ScrollLayouts ==
    {[hero |-> FALSE, heroTop |-> 0, panels |-> <<>>, innerHeight |-> vh,
      scrollHeight |-> vh + d] : vh \in 1..2, d \in 0..MaxScrollable}

\* progress values a caller may hand to updateScrollbar
ProgressValues ==
    {NaN, <<1, 0>>, <<-1, 0>>} \cup {JsDiv(k, 4) : k \in -2..6}

InitScroll ==
    /\ layout \in ScrollLayouts
    /\ hooks = AllHooks
    /\ pageYOffset \in -1..(MaxScrollable + 1)
    /\ initTimers = <<>>
    /\ timers = <<>>
    /\ InitPage(layout, hooks)
    /\ InitMoreIdle
    /\ InitFetchIdle
    /\ InitMappersIdle

\* updateScrollEffects, lines 57-63: the document progress and updateScrollbar
CoordinatorProgress ==
    /\ scrollData.by = "none"
    /\ passedProgress = Unset
    /\ LET p == actualScrollProgress(layout, pageYOffset)
       IN  /\ scrollData' = [by |-> "updateScrollEffects", progress |-> p]
           /\ passedProgress' = p
           /\ indicatorTop' = updateScrollIndicator(hooks, p, indicatorTop)
    /\ UNCHANGED <<backgroundColor, rulerMarks, scrollRequest,
                   moreVars, fetchVars, docVars, pageYOffset, progressVars,
                   frameVars, initTimers, lastCalls, ringVars, panelVars, logoTransform,
                   titleBox, frameHistory, panelHistory, titleHistory>>

\* updateScrollBehavior: calculateScrollData
ScrollDataStep ==
    /\ scrollData.by = "none"
    /\ passedProgress = Unset
    /\ scrollData' = [by |-> "calculateScrollData",
                      progress |-> calculateScrollData(layout, pageYOffset).scrollProgress]
    /\ UNCHANGED <<passedProgress, backgroundColor, rulerMarks, scrollRequest,
                   moreVars, fetchVars, docVars, pageYOffset,
                   progressVars, frameVars, initTimers, lastCalls, ringVars, indicatorTop,
                   panelVars, logoTransform, titleBox, frameHistory, panelHistory,
                   titleHistory>>

\* updateTitleBoxing: calculateScrollProgress
TitleProgressStep ==
    /\ scrollData.by = "none"
    /\ passedProgress = Unset
    /\ scrollData' = [by |-> "calculateScrollProgress",
                      progress |-> calculateScrollProgress(layout, pageYOffset)]
    /\ UNCHANGED <<passedProgress, backgroundColor, rulerMarks, scrollRequest,
                   moreVars, fetchVars, docVars, pageYOffset,
                   progressVars, frameVars, initTimers, lastCalls, ringVars, indicatorTop,
                   panelVars, logoTransform, titleBox, frameHistory, panelHistory,
                   titleHistory>>

\* updateScrollbar(scrollProgress) called with any number
CallUpdateScrollbar ==
    /\ scrollData.by = "none"
    /\ passedProgress = Unset
    /\ \E p \in ProgressValues :
           /\ passedProgress' = p
           /\ indicatorTop' = updateScrollIndicator(hooks, p, indicatorTop)
    /\ UNCHANGED <<scrollData, backgroundColor, rulerMarks, scrollRequest,
                   moreVars, fetchVars, docVars, pageYOffset,
                   progressVars, frameVars, initTimers, lastCalls, ringVars, panelVars,
                   logoTransform, titleBox, frameHistory, panelHistory, titleHistory>>

NextScroll ==
    \/ CoordinatorProgress
    \/ ScrollDataStep
    \/ TitleProgressStep
    \/ CallUpdateScrollbar

SpecScroll == InitScroll /\ [][NextScroll]_vars

----------------------------------------------------------------------------
(* Specification SpecMarks: createScrollbarMarkings on drawn pages *)

\* a section, with or without an h1 one pixel below its top
MarkSections ==
    {[top |-> t, h1 |-> h, h1Top |-> t + 1] : t \in 0..MaxHeading, h \in BOOLEAN}

\* sections follow each other down the page
MarkSectionLists ==
    {ss \in UNION {[1..n -> MarkSections] : n \in 0..MaxSections} :
        \A k \in 1..(Len(ss) - 1) : ss[k].top <= ss[k + 1].top}

\* a mark left in the track by the markup
StaleMarks ==
    <<[cls |-> "ruler-mark short", top |-> Num(50), click |-> "none", h1AbsoluteTop |-> 0,
       color |-> "markColor", reverts |-> 0]>>

MarkLayouts ==
    {[hero |-> FALSE, heroTop |-> 0, panels |-> <<>>, innerHeight |-> vh,
      scrollHeight |-> vh + d, sections |-> ss, staleMarks |-> st] :
        vh \in {5, 10}, d \in {0, 3, 4}, ss \in MarkSectionLists,
        st \in {<<>>, StaleMarks}}

InitMarks ==
    /\ layout \in MarkLayouts
    /\ hooks \in {MarkupHooks, AllHooks}
    /\ pageYOffset = 0
    /\ initTimers = <<"scrollbar">>
    /\ timers = <<>>
    /\ InitPage(layout, hooks)
    /\ InitMoreIdle
    /\ InitFetchIdle
    /\ passedProgress = Unset
    /\ scrollData = [by |-> "none", progress |-> Unset]
    /\ backgroundColor = NoBackground
    /\ rulerMarks = layout.staleMarks
    /\ scrollRequest = NoScrollRequest

\* initializeScrollbar's timeout: createScrollbarMarkings
CreateMarkings ==
    /\ initTimers # <<>>
    /\ Head(initTimers) = "scrollbar"
    /\ initTimers' = Tail(initTimers)
    /\ rulerMarks' = createScrollbarMarkings(hooks, layout, rulerMarks)
    /\ UNCHANGED <<passedProgress, scrollData, backgroundColor, scrollRequest, moreVars, fetchVars,
                   docVars,
                   pageYOffset, progressVars, frameVars, lastCalls, ringVars, indicatorTop,
                   panelVars, logoTransform, titleBox, frameHistory, panelHistory,
                   titleHistory>>

NextMarks == CreateMarkings

SpecMarks == InitMarks /\ [][NextMarks]_vars

----------------------------------------------------------------------------
(* backgroundTransition.js *)

colors ==
    <<[r |-> 0, g |-> 0, b |-> 0],
      [r |-> 15, g |-> 0, b |-> 107],
      [r |-> 62, g |-> 116, b |-> 255]>>

colorStops == <<Num(0), <<2, 5>>, Num(1)>>

\* Math.round: the nearest integer, halves towards +Infinity
MathRound(x) == IF x[2] = 0 THEN x ELSE Num((2 * x[1] + x[2]) \div (2 * x[2]))

lerp(start, end, factor) == JsAdd(start, JsMul(JsSub(end, start), factor))

interpolateColor(color1, color2, factor) ==
    [r |-> MathRound(lerp(Num(color1.r), Num(color2.r), factor)),
     g |-> MathRound(lerp(Num(color1.g), Num(color2.g), factor)),
     b |-> MathRound(lerp(Num(color1.b), Num(color2.b), factor))]

\* the CSS text `rgb(r, g, b)`
rgbToString(color) == [fn |-> "rgb", r |-> color.r, g |-> color.g, b |-> color.b]

\* the first segment whose two stops enclose progress, the first segment if none does
SegmentIndex(progress) ==
    LET enclosing == {i \in 1..(Len(colorStops) - 1) :
                          /\ JsGe(progress, colorStops[i])
                          /\ JsGe(colorStops[i + 1], progress)}
    IN  IF enclosing = {} THEN 1
        ELSE CHOOSE i \in enclosing : \A j \in enclosing : i <= j

SegmentColor(progress) ==
    LET segmentIndex == SegmentIndex(progress)
        segmentStart == colorStops[segmentIndex]
        segmentEnd == colorStops[segmentIndex + 1]
        segmentProgress == JsQuot(JsSub(progress, segmentStart),
                                  JsSub(segmentEnd, segmentStart))
    IN  rgbToString(interpolateColor(colors[segmentIndex], colors[segmentIndex + 1],
                                     segmentProgress))

\* calculateBackgroundColor without the clamp of its argument
calculateBackgroundColorNoClamp(scrollProgress) == SegmentColor(scrollProgress)

calculateBackgroundColor(scrollProgress) ==
    SegmentColor(MathMax(Num(0), MathMin(Num(1), scrollProgress)))

\* /rgb\((\d+), (\d+), (\d+)\)/ finds three digit strings in the text
RgbMatch(text) ==
    \A c \in {text.r, text.g, text.b} : c[2] = 1 /\ c[1] >= 0

\* the styles written by updateBackgroundTransition: body.style.backgroundColor
\* and, where the element exists, .master-background's style.background
updateBackgroundTransition(hk, scrollProgress) ==
    LET color == calculateBackgroundColor(scrollProgress)
    IN  [body |-> color,
         master |-> IF "master-background" \notin hk THEN [fn |-> "none"]
                    ELSE IF RgbMatch(color)
                         THEN [fn |-> "rgba", r |-> color.r, g |-> color.g, b |-> color.b,
                               a |-> <<3, 10>>]
                         ELSE color]

----------------------------------------------------------------------------
(* Specification SpecBackground: progress values handed to the background *)

BackgroundProgress ==
    {Norm(<<k, MaxGrain>>) : k \in -(MaxGrain \div 4)..(MaxGrain + MaxGrain \div 4)}
        \cup {colorStops[i] : i \in 1..Len(colorStops)}
        \cup {NaN, <<1, 0>>, <<-1, 0>>}

InitBackground ==
    /\ layout \in {LongPage}
    /\ hooks \in {AllHooks, AllHooks \ {"master-background"}}
    /\ pageYOffset = 0
    /\ initTimers = <<>>
    /\ timers = <<>>
    /\ InitPage(layout, hooks)
    /\ InitMoreIdle
    /\ InitFetchIdle
    /\ InitMappersIdle

UpdateBackground ==
    /\ \E p \in BackgroundProgress :
           /\ passedProgress' = p
           /\ backgroundColor' = updateBackgroundTransition(hooks, p)
    /\ UNCHANGED <<scrollData, rulerMarks, scrollRequest, moreVars, fetchVars, docVars, pageYOffset,
                   progressVars, frameVars, initTimers, lastCalls, ringVars, indicatorTop,
                   panelVars, logoTransform, titleBox, frameHistory, panelHistory,
                   titleHistory>>

NextBackground == UpdateBackground

SpecBackground == InitBackground /\ [][NextBackground]_vars

----------------------------------------------------------------------------
(* Specification SpecClick: clicks on the scrollbar marks *)

\* headings above the target offset, within reach, and past the last offset
\* the page can scroll to
TallPage ==
    [hero |-> FALSE, heroTop |-> 0, panels |-> <<>>, innerHeight |-> 10, scrollHeight |-> 30,
     sections |-> <<[top |-> 0, h1 |-> TRUE, h1Top |-> 1],
                    [top |-> 12, h1 |-> FALSE, h1Top |-> 12],
                    [top |-> 24, h1 |-> TRUE, h1Top |-> 29]>>,
     staleMarks |-> <<>>]

NarrowPage ==
    [hero |-> FALSE, heroTop |-> 0, panels |-> <<>>, innerHeight |-> 5, scrollHeight |-> 15,
     sections |-> <<[top |-> 3, h1 |-> TRUE, h1Top |-> 4]>>,
     staleMarks |-> <<>>]

ClickLayouts == {TallPage, NarrowPage}

InitClick ==
    /\ layout \in ClickLayouts
    /\ hooks = MarkupHooks
    /\ pageYOffset = 0
    /\ initTimers = <<"scrollbar">>
    /\ timers = <<>>
    /\ InitPage(layout, hooks)
    /\ InitMoreIdle
    /\ InitFetchIdle
    /\ passedProgress = Unset
    /\ scrollData = [by |-> "none", progress |-> Unset]
    /\ backgroundColor = NoBackground
    /\ rulerMarks = layout.staleMarks
    /\ scrollRequest = NoScrollRequest

\* the click handler of a clickable mark: window.scrollTo, the active colour,
\* and the timeout that takes the colour back
ClickMark ==
    /\ \E k \in 1..Len(rulerMarks) :
           /\ rulerMarks[k].click # "none"
           /\ rulerMarks[k].reverts < MaxFeedback
           /\ scrollRequest' = [target |-> ScrollTarget(rulerMarks[k], layout.innerHeight),
                                by |-> k, done |-> FALSE]
           /\ rulerMarks' = [rulerMarks EXCEPT ![k].color = "majorMarkActiveColor",
                                               ![k].reverts = @ + 1]
    /\ UNCHANGED <<passedProgress, scrollData, backgroundColor, moreVars, fetchVars, docVars,
                   pageYOffset, progressVars, frameVars, initTimers, lastCalls, ringVars,
                   indicatorTop, panelVars, logoTransform, titleBox, frameHistory,
                   panelHistory, titleHistory>>

\* the smooth scroll of the last scrollTo reaches its end
ScrollCompletes ==
    /\ scrollRequest.by # 0
    /\ ~scrollRequest.done
    /\ pageYOffset' = ScrollEnd(layout, scrollRequest.target)
    /\ scrollRequest' = [scrollRequest EXCEPT !.done = TRUE]
    /\ UNCHANGED <<passedProgress, scrollData, backgroundColor, rulerMarks, moreVars, fetchVars, docVars,
                   progressVars, frameVars, initTimers, lastCalls, ringVars,
                   indicatorTop, panelVars, logoTransform, titleBox, frameHistory,
                   panelHistory, titleHistory>>

\* a feedback timeout fires: the mark gets markColor back
FeedbackTimeout ==
    /\ \E k \in 1..Len(rulerMarks) :
           /\ rulerMarks[k].reverts > 0
           /\ rulerMarks' = [rulerMarks EXCEPT ![k].color = "markColor",
                                               ![k].reverts = @ - 1]
    /\ UNCHANGED <<passedProgress, scrollData, backgroundColor, scrollRequest, moreVars, fetchVars,
                   docVars, pageYOffset, progressVars, frameVars, initTimers, lastCalls,
                   ringVars, indicatorTop, panelVars, logoTransform, titleBox, frameHistory,
                   panelHistory, titleHistory>>

NextClick ==
    \/ CreateMarkings
    \/ ClickMark
    \/ ScrollCompletes
    \/ FeedbackTimeout

SpecClick == InitClick /\ [][NextClick]_vars

----------------------------------------------------------------------------
(* Specification SpecRing: updateProgressSystem call after call *)

\* a journey of quarters, and one of halves
RingLayouts ==
    {[hero |-> TRUE, heroTop |-> 0,
      panels |-> <<[kind |-> "small", top |-> 3, bottom |-> b, links |-> 0,
                    divider |-> FALSE]>>,
      innerHeight |-> 2, scrollHeight |-> b] : b \in {4, 6}}

RingHooks ==
    {AllHooks, AllHooks \ {"progress-circle"}, AllHooks \ {"compass-outer"}}

InitRing ==
    /\ layout \in RingLayouts
    /\ hooks \in RingHooks
    /\ pageYOffset = 0
    /\ initTimers = <<>>
    /\ timers = <<>>
    /\ InitPage(layout, hooks)
    /\ InitMoreIdle
    /\ InitFetchIdle
    /\ InitMappersIdle

\* the page is scrolled to another offset
RingScroll ==
    /\ \E y \in 0..(layout.scrollHeight - layout.innerHeight) :
           /\ y # pageYOffset
           /\ pageYOffset' = y
    /\ UNCHANGED <<mapperVars, moreVars, fetchVars, docVars, progressVars, frameVars,
                   initTimers, lastCalls, ringVars, indicatorTop, panelVars, logoTransform,
                   titleBox, frameHistory, panelHistory, titleHistory>>

\* updateProgressSystem(viewportHeight)
UpdateProgressSystem ==
    /\ LET pd == calculateContentProgress(layout, pageYOffset, layout.innerHeight)
       IN  /\ progressData' = pd
           /\ progressImpl' = "current"
           /\ ringOffset' = updateProgressRing(hooks, pd.smoothProgress, ringOffset)
           /\ compassAngle' = updateCompassRotation(hooks, pd.smoothProgress, compassAngle)
    /\ priorProgress' = IF progressImpl = "none" THEN Unset ELSE progressData.smoothProgress
    /\ UNCHANGED <<mapperVars, animationData, writeLog, moveStart, globeVars, fetchVars, docVars, pageYOffset, frameVars, initTimers,
                   lastCalls, indicatorTop, panelVars, logoTransform, titleBox, frameHistory,
                   panelHistory, titleHistory>>

NextRing == RingScroll \/ UpdateProgressSystem

SpecRing == InitRing /\ [][NextRing]_vars

----------------------------------------------------------------------------
(* Specification SpecPanel: updatePanelAnimations on drawn panel rectangles *)

PanelLayouts ==
    {[hero |-> FALSE, heroTop |-> 0,
      panels |-> <<[kind |-> k, top |-> t, bottom |-> t + h, links |-> 0,
                    divider |-> TRUE]>>,
      innerHeight |-> vh, scrollHeight |-> MaxViewport + MaxPanelHeight + 1] :
        k \in {"small", "large"}, t \in -(MaxPanelHeight + 1)..(MaxViewport + 1),
        h \in 0..MaxPanelHeight, vh \in 0..MaxViewport}

InitPanel ==
    /\ layout \in PanelLayouts
    /\ hooks = AllHooks
    /\ pageYOffset \in 0..1
    /\ initTimers = <<>>
    /\ timers = [sl \in LinkSlots(layout) |-> 0]
    /\ InitPage(layout, hooks)
    /\ InitMoreIdle
    /\ InitFetchIdle
    /\ InitMappersIdle

\* updatePanelAnimations(window.innerHeight)
UpdatePanelAnimations ==
    /\ animationData = <<>>
    /\ RunUpdatePanelAnimations(layout.innerHeight)
    /\ animationData' =
           [i \in 1..Len(layout.panels) |->
               PanelJudgement(layout, pageYOffset, layout.innerHeight, i)]
    /\ UNCHANGED <<mapperVars, priorProgress, writeLog, moveStart, globeVars, fetchVars, docVars, pageYOffset,
                   frameVars, frameHistory, progressVars, initTimers, lastCalls, ringVars,
                   indicatorTop, logoTransform, titleBox, titleHistory>>

NextPanel == UpdatePanelAnimations

SpecPanel == InitPanel /\ [][NextPanel]_vars

----------------------------------------------------------------------------
(* Specification SpecWrites: which element properties each mapper writes *)

\* updateProgressRing and updateCompassRotation
ProgressWrites(hk) ==
    {<<"#progress-circle", "style.strokeDashoffset">> : h \in {"progress-circle"} \cap hk}
        \cup {<<".compass-outer", "style.transform">> : h \in {"compass-outer"} \cap hk}

\* updateScrollIndicator
ScrollbarWrites(hk) ==
    {<<".scroll-indicator", "style.top">> : h \in {"scroll-indicator"} \cap hk}

\* updatePanelOpacity, updatePanelDivider and updatePanelLinks on every panel walked
PanelWrites(lay, y, viewportHeight, flags) ==
    UNION {
        LET J == PanelJudgement(lay, y, viewportHeight, i)
            L == updatePanelLinks(flags[i], J.isFullyVisible, J.isOffScreen)
        IN  {<<".content-panel", "style.opacity">>}
                \cup {<<".panel-divider", "style.width">> : d \in {TRUE} \cap {lay.panels[i].divider}}
                \cup {<<".content-panel", "dataset.linksAnimated">> :
                          w \in {TRUE} \cap {L.reset \/ L.start}}
                \cup {<<".content-panel a", "classList">> :
                          w \in {TRUE} \cap {L.reset /\ lay.panels[i].links > 0}}
        : i \in AnimatedPanels(lay)}

\* the callback of a link timer
LinkTimerWrites == {<<".content-panel a", "classList">>}

\* handleLogoMovement writing the background shorthand of .master-background
LogoWritesBackground(hk, pd) ==
    IF pd.lastPanel = 0 \/ "hero-image" \notin hk \/ "master-background" \notin hk
    THEN {}
    ELSE {<<".hero-image", "style.transform">>, <<".master-background", "style.background">>}

\* handleLogoMovement: both branches write the two transforms
LogoWrites(hk, pd) ==
    IF pd.lastPanel = 0 \/ "hero-image" \notin hk \/ "master-background" \notin hk
    THEN {}
    ELSE {<<".hero-image", "style.transform">>, <<".master-background", "style.transform">>}

\* updateTitleBoxing, branch by branch
TitleWrites(tb, lay, y) ==
    LET scrollProgress == calculateScrollProgress(lay, y)
        box == "#animated-title-box"
        fixed == {<<box, "style.position">>, <<box, "style.top">>, <<box, "style.left">>,
                  <<box, "style.transform">>}
    IN  IF ~tb.state.isInitialized THEN {}
        ELSE IF IdleBranch(scrollProgress) THEN {<<box, "classList">>} \cup fixed
        ELSE IF BoxingBranch(scrollProgress) \/ BoxedBranch(scrollProgress)
             THEN {<<box, "classList">>, <<box, "style.--fill-opacity">>} \cup fixed
        ELSE IF MovingBranch(scrollProgress)
             THEN {<<box, "classList">>, <<box, "style.transform">>}
                      \cup (IF tb.state.currentPhase # "moved"
                            THEN {<<box, "style.position">>, <<box, "style.top">>,
                                  <<box, "style.left">>, <<box, "style.transition">>}
                            ELSE {})
        ELSE IF ScrollableBranch(scrollProgress)
             THEN {<<box, "classList">>, <<box, "style.transform">>}
        ELSE {}

\* updateBackgroundTransition
BackgroundWrites(hk) ==
    {<<".master-background", "style.background">> : h \in {"master-background"} \cap hk}
        \cup {<<"body", "style.backgroundColor">>}

InitWrites ==
    /\ layout \in MainLayouts
    /\ hooks \in {AllHooks, AllHooks \ {"master-background"}}
    /\ pageYOffset = 0
    /\ initTimers = <<>>
    /\ timers = [sl \in LinkSlots(layout) |-> 0]
    /\ InitPage(layout, hooks)
    /\ InitMoreIdle
    /\ InitFetchIdle
    /\ InitMappersIdle

\* the page is scrolled to another stop
WritesScroll ==
    /\ \E y \in {layout.stops[k] : k \in 1..Len(layout.stops)} \ {pageYOffset} :
           pageYOffset' = y
    /\ UNCHANGED <<mapperVars, moreVars, fetchVars, docVars, progressVars, frameVars,
                   initTimers, lastCalls, ringVars, indicatorTop, panelVars, logoTransform,
                   titleBox, frameHistory, panelHistory, titleHistory>>

\* updateScrollEffects, with the properties each mapper writes in it
WritesFrame ==
    /\ RunUpdateScrollEffects
    /\ LET pd == calculateContentProgress(layout, pageYOffset, layout.innerHeight)
       IN  writeLog' =
               [writeLog EXCEPT
                   !["progressSystem"] = @ \cup ProgressWrites(hooks),
                   !["customScrollbar"] = @ \cup ScrollbarWrites(hooks),
                   !["panelAnimations"] =
                       @ \cup PanelWrites(layout, pageYOffset, layout.innerHeight,
                                          linksAnimated),
                   !["scrollBehavior"] = @ \cup LogoWrites(hooks, pd),
                   !["titleBoxing"] = @ \cup TitleWrites(titleBox, layout, pageYOffset)]
    /\ UNCHANGED <<mapperVars, priorProgress, animationData, moveStart, globeVars, fetchVars, docVars,
                   pageYOffset, frameVars, initTimers, frameHistory>>

\* a link timer of the panel animations fires
WritesLinkTimer ==
    /\ RunLinkTimer
    /\ writeLog' = [writeLog EXCEPT !["panelAnimations"] = @ \cup LinkTimerWrites]
    /\ UNCHANGED <<mapperVars, priorProgress, animationData, moveStart, globeVars, fetchVars, docVars,
                   pageYOffset, frameVars, frameHistory, progressVars, initTimers,
                   lastCalls, ringVars, indicatorTop, panelStyle, linksAnimated,
                   logoTransform, titleBox, panelHistory, titleHistory>>

\* updateBackgroundTransition with the progress of the last frame
WritesBackground ==
    /\ progressImpl = "current"
    /\ passedProgress' = progressData.smoothProgress
    /\ backgroundColor' = updateBackgroundTransition(hooks, progressData.smoothProgress)
    /\ writeLog' = [writeLog EXCEPT !["backgroundTransition"] = @ \cup BackgroundWrites(hooks)]
    /\ UNCHANGED <<scrollData, rulerMarks, scrollRequest, priorProgress, animationData,
                   moveStart, globeVars, fetchVars, docVars, pageYOffset, progressVars, frameVars, initTimers,
                   lastCalls, ringVars, indicatorTop, panelVars, logoTransform, titleBox,
                   frameHistory, panelHistory, titleHistory>>

NextWrites ==
    \/ WritesScroll
    \/ WritesFrame
    \/ WritesLinkTimer
    \/ WritesBackground

SpecWrites == InitWrites /\ [][NextWrites]_vars

----------------------------------------------------------------------------
(* Specification SpecTitle: the title box under jumps and reversals *)

\* scroll progress is the offset in percent; two stops lie in every phase
TitlePage ==
    [hero |-> TRUE, heroTop |-> 0, panels |-> <<>>,
     innerHeight |-> 20, scrollHeight |-> 120, titleHeight |-> 4,
     stops |-> <<0, 1, 5, 13, 20, 40, 100>>]

InitTitle ==
    /\ layout = TitlePage
    /\ hooks = AllHooks
    /\ pageYOffset = 0
    /\ initTimers = <<>>
    /\ timers = [sl \in LinkSlots(layout) |-> 0]
    /\ InitPage(layout, hooks)
    /\ InitMoreIdle
    /\ InitFetchIdle
    /\ InitMappersIdle

\* the page is scrolled, or jumps, to another stop
TitleScroll ==
    /\ \E y \in {layout.stops[k] : k \in 1..Len(layout.stops)} \ {pageYOffset} :
           pageYOffset' = y
    /\ UNCHANGED <<mapperVars, moreVars, fetchVars, docVars, progressVars, frameVars,
                   initTimers, lastCalls, ringVars, indicatorTop, panelVars, logoTransform,
                   titleBox, frameHistory, panelHistory, titleHistory>>

\* updateTitleBoxing()
UpdateTitleBoxing ==
    /\ titleBox.state.isInitialized
    /\ titleBox' = updateTitleBoxing(titleBox, layout, pageYOffset)
    /\ LET p == calculateScrollProgress(layout, pageYOffset)
       IN  /\ titleHistory' = [titleHistory EXCEPT !.progress = p]
           /\ moveStart' =
                  IF MovingBranch(p)
                  THEN [entry |-> IF titleBox.state.currentPhase # "moved"
                                  THEN StartYpx(layout, pageYOffset)
                                  ELSE moveStart.entry,
                        used |-> StartYpx(layout, pageYOffset)]
                  ELSE NoMoveStart
    /\ UNCHANGED <<mapperVars, priorProgress, animationData, writeLog, globeVars, fetchVars, docVars,
                   pageYOffset, progressVars, frameVars, initTimers, lastCalls, ringVars,
                   indicatorTop, panelVars, logoTransform, frameHistory, panelHistory>>

\* cleanupTitleBoxing()
CleanupTitleBoxing ==
    /\ titleBox.state.isInitialized
    /\ titleBox' = cleanupTitleBoxing(titleBox)
    /\ moveStart' = NoMoveStart
    /\ UNCHANGED <<mapperVars, priorProgress, animationData, writeLog, globeVars, fetchVars, docVars,
                   pageYOffset, progressVars, frameVars, initTimers, lastCalls, ringVars,
                   indicatorTop, panelVars, logoTransform, frameHistory, panelHistory,
                   titleHistory>>

\* initializeTitleBoxing() after a cleanup
InitializeTitleBoxing ==
    /\ ~titleBox.state.isInitialized
    /\ titleBox' = initializeTitleBoxing(hooks, titleBox)
    /\ UNCHANGED <<mapperVars, moreVars, fetchVars, docVars, pageYOffset, progressVars,
                   frameVars, initTimers, lastCalls, ringVars, indicatorTop, panelVars,
                   logoTransform, frameHistory, panelHistory, titleHistory>>

NextTitle ==
    \/ TitleScroll
    \/ UpdateTitleBoxing
    \/ CleanupTitleBoxing
    \/ InitializeTitleBoxing

SpecTitle == InitTitle /\ [][NextTitle]_vars

----------------------------------------------------------------------------
(* Specification SpecAlign: the indicator after a click on a section marker *)

AlignPage(vh, sh, sections) ==
    [hero |-> FALSE, heroTop |-> 0, panels |-> <<>>, innerHeight |-> vh,
     scrollHeight |-> sh, titleHeight |-> 4, stops |-> <<>>, sections |-> sections,
     staleMarks |-> <<>>]

\* the pages of SpecClick, and a page that fits its viewport
AlignLayouts ==
    {AlignPage(TallPage.innerHeight, TallPage.scrollHeight, TallPage.sections),
     AlignPage(NarrowPage.innerHeight, NarrowPage.scrollHeight, NarrowPage.sections),
     AlignPage(10, 10, <<[top |-> 0, h1 |-> TRUE, h1Top |-> 1],
                         [top |-> 5, h1 |-> TRUE, h1Top |-> 6]>>)}

InitAlign ==
    /\ layout \in AlignLayouts
    /\ hooks = MarkupHooks
    /\ pageYOffset = 0
    /\ initTimers = <<"scrollbar">>
    /\ timers = [sl \in LinkSlots(layout) |-> 0]
    /\ InitPage(layout, hooks)
    /\ InitMoreIdle
    /\ InitFetchIdle
    /\ passedProgress = Unset
    /\ scrollData = [by |-> "none", progress |-> Unset]
    /\ backgroundColor = NoBackground
    /\ rulerMarks = layout.staleMarks
    /\ scrollRequest = NoScrollRequest

\* updateScrollEffects at the current offset
AlignFrame ==
    /\ RunUpdateScrollEffects
    /\ UNCHANGED <<mapperVars, moreVars, fetchVars, docVars, pageYOffset, frameVars,
                   initTimers, frameHistory>>

NextAlign ==
    \/ CreateMarkings
    \/ ClickMark
    \/ ScrollCompletes
    \/ FeedbackTimeout
    \/ AlignFrame

SpecAlign == InitAlign /\ [][NextAlign]_vars

----------------------------------------------------------------------------
(* Specification SpecLive: scroll events and frames, the browser firing every
   pending animation frame *)

\* a page without links: no link timer is ever scheduled
LivePage ==
    [hero |-> TRUE, heroTop |-> 0,
     panels |-> <<[kind |-> "small", top |-> 30, bottom |-> 50, links |-> 0, divider |-> TRUE],
                  [kind |-> "large", top |-> 70, bottom |-> 120, links |-> 0, divider |-> FALSE]>>,
     innerHeight |-> 20, scrollHeight |-> 120, titleHeight |-> 4,
     stops |-> <<0, 13, 40, 100>>]

InitLive ==
    /\ layout = LivePage
    /\ hooks = AllHooks
    /\ pageYOffset = 0
    /\ initTimers = <<"panels", "app">>
    /\ timers = [sl \in LinkSlots(layout) |-> 0]
    /\ InitPage(layout, hooks)
    /\ InitMoreIdle
    /\ InitFetchIdle
    /\ InitMappersIdle

NextLive ==
    \/ ScrollEvent
    \/ AnimationFrame
    \/ InitialUpdate
    \/ InitialPanelUpdate

\* the browser fires a pending animation frame: weak fairness of
\* AnimationFrame, WF_vars(AnimationFrame), with its enabling condition
\* written out (on LivePage a frame step can be taken exactly when a
\* callback is pending, and it always removes that callback)
FramesFire == []<>(frameCallbacks = {}) \/ []<><<AnimationFrame>>_vars

SpecLive == InitLive /\ [][NextLive]_vars /\ FramesFire

----------------------------------------------------------------------------
(* globeBackground.js: initializeGlobeBackground, loadCableDataAsync and
   destroyGlobe, each call running from one await to the next without
   interruption *)

\* everything but the state of the globe
notGlobeVars ==
    <<layout, hooks, pageYOffset, progressData, progressImpl, scrollTimeout,
      frameCallbacks, inFrame, initTimers, lastCalls, ringOffset, compassAngle,
      indicatorTop, panelStyle, linksAnimated, linkClasses, timers, logoTransform,
      titleBox, runsThisFrame, scrollsSinceFrame, startsSinceOff, lastJudgement,
      titleHistory, fetchVars, mapperVars, historyVars>>

\* the guard that only looks at isInitialized
GuardReturnsInitializedOnly == isInitialized

\* the guard at the head of initializeGlobeBackground
GuardReturns == initializationInProgress \/ isInitialized

\* loadCableDataAsync up to its first await: it returns at once when
\* cablesLoaded is set, and awaits fetchCableData otherwise
loadCableDataAsync(loaded) == IF loaded THEN "skipped" ELSE "fetching"

\* the catch block of initializeGlobeBackground
CleanUpOnError(c) ==
    /\ documentContainers' = documentContainers \ {globeContainer}
    /\ globeContainer' = 0
    /\ globe' = 0
    /\ isInitialized' = FALSE
    /\ initializationInProgress' = FALSE
    /\ cablesLoaded' = FALSE
    /\ initCalls' = [initCalls EXCEPT ![c] = "failed"]
    /\ UNCHANGED <<created, instances, cableLoads>>

\* the try block from "Create globe container" on: the element is made and
\* inserted, new Globe either returns an instance or throws, and after a
\* return the flags are set and loadCableDataAsync is started
CreateContainerAndGlobe(c, constructorThrows) ==
    LET id == created + 1
    IN  IF constructorThrows
        THEN \* globeContainer is the new element when the catch block runs
             /\ created' = id
             /\ documentContainers' = (documentContainers \cup {id}) \ {id}
             /\ globeContainer' = 0
             /\ globe' = 0
             /\ isInitialized' = FALSE
             /\ initializationInProgress' = FALSE
             /\ cablesLoaded' = FALSE
             /\ initCalls' = [initCalls EXCEPT ![c] = "failed"]
             /\ UNCHANGED <<instances, cableLoads>>
        ELSE /\ created' = id
             /\ documentContainers' = documentContainers \cup {id}
             /\ globeContainer' = id
             /\ globe' = id
             /\ instances' = instances \cup {id}
             /\ isInitialized' = TRUE
             /\ initializationInProgress' = FALSE
             /\ cableLoads' = [cableLoads EXCEPT ![id] = loadCableDataAsync(cablesLoaded)]
             /\ cablesLoaded' = cablesLoaded
             /\ initCalls' = [initCalls EXCEPT ![c] = "succeeded"]

\* a call of initializeGlobeBackground, up to its first await or its return
CallInitialize(c) ==
    /\ initCalls[c] = "new"
    /\ IF GuardReturns
       THEN /\ initCalls' = [initCalls EXCEPT ![c] = "skipped"]
            /\ UNCHANGED <<Globe, globe, globeContainer, isInitialized, cablesLoaded,
                           initializationInProgress, documentContainers, created,
                           instances, cableLoads>>
       ELSE IF Globe # "null" \/ windowGlobe
       THEN /\ Globe' = "Globe"
            /\ \E constructorThrows \in BOOLEAN : CreateContainerAndGlobe(c, constructorThrows)
       ELSE /\ initializationInProgress' = TRUE
            /\ initCalls' = [initCalls EXCEPT ![c] = "import"]
            /\ UNCHANGED <<Globe, globe, globeContainer, isInitialized, cablesLoaded,
                           documentContainers, created, instances, cableLoads>>
    /\ UNCHANGED <<windowGlobe, dataset, destroys, notGlobeVars>>

\* import('globe.gl') settles: the module becomes Globe, or the catch of the
\* import starts the one-second wait
ImportSettles(c) ==
    /\ initCalls[c] = "import"
    /\ \/ /\ Globe' = "Globe"
          /\ \E constructorThrows \in BOOLEAN : CreateContainerAndGlobe(c, constructorThrows)
       \/ /\ initCalls' = [initCalls EXCEPT ![c] = "delay"]
          /\ UNCHANGED <<Globe, globe, globeContainer, isInitialized, cablesLoaded,
                         initializationInProgress, documentContainers, created,
                         instances, cableLoads>>
    /\ UNCHANGED <<windowGlobe, dataset, destroys, notGlobeVars>>

\* the one-second wait is over: window.Globe is taken, or the call throws
DelayElapses(c) ==
    /\ initCalls[c] = "delay"
    /\ IF windowGlobe
       THEN /\ Globe' = "Globe"
            /\ \E constructorThrows \in BOOLEAN : CreateContainerAndGlobe(c, constructorThrows)
       ELSE /\ CleanUpOnError(c)
            /\ UNCHANGED Globe
    /\ UNCHANGED <<windowGlobe, dataset, destroys, notGlobeVars>>

\* the script of the CDN runs and defines window.Globe
CdnScriptRuns ==
    /\ ~windowGlobe
    /\ windowGlobe' = TRUE
    /\ UNCHANGED <<Globe, globe, globeContainer, isInitialized, cablesLoaded,
                   initializationInProgress, documentContainers, created, instances,
                   initCalls, cableLoads, dataset, destroys, notGlobeVars>>

\* fetchCableData of the load of instance g settles (it never rejects: its
\* last resort is the mock dataset); without paths the load returns, with
\* paths it applies them to its instance and sets cablesLoaded
FetchSettles(g) ==
    /\ cableLoads[g] = "fetching"
    /\ IF dataset = 0
       THEN /\ cableLoads' = [cableLoads EXCEPT ![g] = "empty"]
            /\ UNCHANGED cablesLoaded
       ELSE /\ cableLoads' = [cableLoads EXCEPT ![g] = "applied"]
            /\ cablesLoaded' = TRUE
    /\ UNCHANGED <<Globe, globe, globeContainer, isInitialized, initializationInProgress,
                   windowGlobe, documentContainers, created, instances, initCalls,
                   dataset, destroys, notGlobeVars>>

destroyGlobe ==
    /\ globe' = 0
    /\ documentContainers' = documentContainers \ {globeContainer}
    /\ globeContainer' = 0
    /\ isInitialized' = FALSE

DestroyGlobe ==
    /\ destroys < MaxDestroys
    /\ destroyGlobe
    /\ destroys' = destroys + 1
    /\ UNCHANGED <<Globe, cablesLoaded, initializationInProgress, windowGlobe, created,
                   instances, initCalls, cableLoads, dataset, notGlobeVars>>

InitGlobe ==
    /\ layout = ShortPage
    /\ hooks = AllHooks
    /\ pageYOffset = 0
    /\ initTimers = <<>>
    /\ timers = [sl \in LinkSlots(layout) |-> 0]
    /\ InitPage(layout, hooks)
    /\ InitHistoryIdle
    /\ InitGlobeModule
    /\ windowGlobe \in BOOLEAN
    /\ dataset \in 0..MaxPaths
    /\ InitFetchIdle
    /\ InitMappersIdle

InitializeCalled == \E c \in 1..MaxCalls : CallInitialize(c)

ImportDone == \E c \in 1..MaxCalls : ImportSettles(c)

DelayDone == \E c \in 1..MaxCalls : DelayElapses(c)

CableFetchDone == \E g \in 1..MaxCalls : FetchSettles(g)

NextGlobe ==
    \/ InitializeCalled
    \/ ImportDone
    \/ DelayDone
    \/ CdnScriptRuns
    \/ CableFetchDone
    \/ DestroyGlobe

SpecGlobe == InitGlobe /\ [][NextGlobe]_vars

\* every await of the globe settles: the import, the wait and each fetch
SpecGlobeSettles ==
    /\ InitGlobe
    /\ [][NextGlobe]_vars
    /\ WF_globeVars(ImportDone)
    /\ WF_globeVars(DelayDone)
    /\ WF_globeVars(CableFetchDone)

----------------------------------------------------------------------------
(* globeBackground.js: fetchCableData *)

cableApiUrl == "cable-geo.json"

\* GLOBE_CONFIG.proxyUrls, in list order
proxyUrls == <<"http-proxy.vastur.com", "cors-anywhere.herokuapp.com",
               "api.allorigins.win", "corsproxy.io">>

\* the feature names of the embedded fallback dataset
mockData ==
    [kind |-> "geo",
     features |-> <<"TransAtlantic Cable", "TransPacific Cable", "European Cable",
                    "Asia Cable", "Americas Cable">>]

\* what a server may answer: a GeoJSON document, the {contents: "<json>"}
\* envelope of AllOrigins (whose string may or may not parse), or no JSON
RemoteFeatures == {<<>>, <<"Remote Cable">>}

ResponseBodies ==
    {[kind |-> k, features |-> f, wrappedOk |-> w] :
        k \in {"geo", "envelope", "garbage"}, f \in RemoteFeatures, w \in BOOLEAN}

\* the URL of attempt i: direct, then `${proxyUrl}${cableApiUrl}`
RequestTargetLastFirst(i) ==
    IF i = 0 THEN <<"direct", cableApiUrl>>
    ELSE <<proxyUrls[Len(proxyUrls) + 1 - i], cableApiUrl>>

RequestTarget(i) ==
    IF i = 0 THEN <<"direct", cableApiUrl>> ELSE <<proxyUrls[i], cableApiUrl>>

\* await response.json(), and for AllOrigins JSON.parse(proxyData.contents):
\* the dataset, or "throws"
ParseBody(i, body) ==
    IF body.kind = "garbage" THEN [throws |-> TRUE, value |-> <<>>]
    ELSE IF i # 0 /\ proxyUrls[i] = "api.allorigins.win"
    THEN IF body.kind = "envelope" /\ body.wrappedOk
         THEN [throws |-> FALSE, value |-> [kind |-> "geo", features |-> body.features]]
         ELSE [throws |-> TRUE, value |-> <<>>]
    ELSE [throws |-> FALSE,
          value |-> IF body.kind = "geo"
                    THEN [kind |-> "geo", features |-> body.features]
                    ELSE [kind |-> "envelope", features |-> <<>>]]

\* the outer catch: return mockData
OnAllFailedRethrows == [status |-> "rejected", value |-> <<>>]

OnAllFailedEmpty == [status |-> "resolved", value |-> [kind |-> "geo", features |-> <<>>]]

OnAllFailed == [status |-> "resolved", value |-> mockData]

Settled(log, outcome) == [log EXCEPT ![Len(log)].outcome = outcome]

\* the catch of an attempt: go on to the next proxy, or give up
AttemptFailed(outcome) ==
    IF attempt < Len(proxyUrls)
    THEN /\ attempt' = attempt + 1
         /\ requestLog' = Append(Settled(requestLog, outcome),
                                 [target |-> RequestTarget(attempt + 1),
                                  outcome |-> "pending"])
         /\ inFlight' = {RequestTarget(attempt + 1)}
         /\ fetchPc' = "awaitFetch"
         /\ response' = NoResponse
         /\ UNCHANGED fetchResult
    ELSE /\ requestLog' = Settled(requestLog, outcome)
         /\ inFlight' = {}
         /\ fetchPc' = "done"
         /\ fetchResult' = OnAllFailed
         /\ response' = NoResponse
         /\ UNCHANGED attempt

\* fetchCableData is called: the direct request goes out
StartFetch ==
    /\ fetchPc = "idle"
    /\ attempt' = 0
    /\ requestLog' = <<[target |-> RequestTarget(0), outcome |-> "pending"]>>
    /\ inFlight' = inFlight \cup {RequestTarget(0)}
    /\ fetchPc' = "awaitFetch"
    /\ UNCHANGED <<response, fetchResult, pageVars>>

\* the request in flight fails on the network: fetch rejects
FetchRejects ==
    /\ fetchPc = "awaitFetch"
    /\ AttemptFailed("network-error")
    /\ UNCHANGED pageVars

\* the request in flight is answered
FetchResponds ==
    /\ fetchPc = "awaitFetch"
    /\ \E ok \in BOOLEAN, body \in ResponseBodies :
           IF ok
           THEN /\ response' = [ok |-> TRUE, body |-> body]
                /\ fetchPc' = "awaitBody"
                /\ UNCHANGED <<attempt, requestLog, inFlight, fetchResult>>
           ELSE AttemptFailed("http-status")
    /\ UNCHANGED pageVars

\* the body of an ok response has been read
BodySettles ==
    /\ fetchPc = "awaitBody"
    /\ LET parsed == ParseBody(attempt, response.body)
       IN  IF parsed.throws
           THEN AttemptFailed("unparsable")
           ELSE /\ fetchResult' = [status |-> "resolved", value |-> parsed.value]
                /\ requestLog' = Settled(requestLog, "ok")
                /\ inFlight' = {}
                /\ fetchPc' = "done"
                /\ UNCHANGED <<attempt, response>>
    /\ UNCHANGED pageVars

NextFetch == StartFetch \/ FetchRejects \/ FetchResponds \/ BodySettles

InitFetch ==
    /\ layout = ShortPage
    /\ hooks = AllHooks
    /\ pageYOffset = 0
    /\ initTimers = <<>>
    /\ timers = [sl \in LinkSlots(layout) |-> 0]
    /\ InitPage(layout, hooks)
    /\ InitMoreIdle
    /\ InitFetchIdle
    /\ InitMappersIdle

\* every request settles, and the continuation of a settled await runs
SpecFetch == InitFetch /\ [][NextFetch]_vars /\ WF_vars(NextFetch)

----------------------------------------------------------------------------
(* Claims about the progress calculator (SpecProgress) *)

InUnitInterval(x) == x[2] > 0 /\ 0 <= x[1] /\ x[1] <= x[2]

\* C1: calculateContentProgress (either calculator) returns a value in [0,1]
\* for every hero top, last-panel bottom and viewport height, including
\* negative scroll offsets, overscroll, a missing hero and no panels.
C1_ProgressInUnitInterval == InUnitInterval(progressData.smoothProgress)

\* the interpolation branch was taken: a result strictly between 0 and 1
C1_Witness ==
    /\ progressImpl = "current"
    /\ layout.hero
    /\ progressData.lastPanel # 0
    /\ JsLt(Num(0), progressData.smoothProgress)
    /\ JsLt(progressData.smoothProgress, Num(1))

\* the anchors of the current calculator, in document coordinates
AnchorsExist == progressImpl = "current" /\ layout.hero /\ progressData.lastPanel # 0

HeroRectTop == layout.heroTop - pageYOffset

LastRectBottom == layout.panels[progressData.lastPanel].bottom - pageYOffset

StartNotPassed == HeroRectTop >= 0

EndPassed == LastRectBottom <= layout.innerHeight

\* scroll offsets at which the start and the end anchor are reached
StartScroll == layout.heroTop

EndScroll == layout.panels[progressData.lastPanel].bottom - layout.innerHeight

IsLinearRatio(p) ==
    /\ p[2] > 0
    /\ p[1] * (EndScroll - StartScroll) = p[2] * (pageYOffset - StartScroll)

\* C2 as stated: 0 whenever the start anchor has not been passed, 1 whenever
\* the end anchor has been passed, the linear ratio otherwise.
C2_AsStated ==
    AnchorsExist =>
        /\ StartNotPassed => JsEq(progressData.smoothProgress, Num(0))
        /\ EndPassed => JsEq(progressData.smoothProgress, Num(1))
        /\ (~StartNotPassed /\ ~EndPassed) => IsLinearRatio(progressData.smoothProgress)

\* C2 amended: the start-anchor test takes precedence; 1 is returned when the
\* end anchor has been passed and the start anchor has been passed as well.
C2_StartTakesPrecedence ==
    AnchorsExist =>
        /\ StartNotPassed => JsEq(progressData.smoothProgress, Num(0))
        /\ (~StartNotPassed /\ EndPassed) => JsEq(progressData.smoothProgress, Num(1))
        /\ (~StartNotPassed /\ ~EndPassed) => IsLinearRatio(progressData.smoothProgress)

\* both anchors passed at once on a page shorter than the viewport
C2_Witness ==
    /\ AnchorsExist
    /\ StartNotPassed
    /\ EndPassed
    /\ JsEq(progressData.smoothProgress, Num(0))

----------------------------------------------------------------------------
(* Claims about the coordinator, the title box and the panel links (Spec) *)

\* a scroll burst is answered: the step that consumes the burst leaves no
\* callback behind and is the only run of its frame
BurstAnswered ==
    (scrollsSinceFrame > 0 /\ scrollsSinceFrame' = 0) =>
        /\ frameCallbacks' = {}
        /\ ~inFrame'
        /\ runsThisFrame' = 1

\* C3: at most one frame callback requested by handleScroll is pending at any
\* moment, it is the one scrollTimeout names, and the scroll events that
\* arrive between two frames cause exactly one run of updateScrollEffects.
C3_SingleSlotFrame ==
    /\ [](/\ Cardinality(frameCallbacks) <= 1
          /\ frameCallbacks \subseteq {scrollTimeout}
          /\ ~inFrame
          /\ runsThisFrame <= 1
          /\ (scrollsSinceFrame > 0 => Cardinality(frameCallbacks) = 1))
    /\ [][BurstAnswered]_vars

\* two scroll events have arrived since the last frame ran; one callback waits
C3_Witness ==
    /\ runsThisFrame = 1
    /\ scrollsSinceFrame >= 2
    /\ Cardinality(frameCallbacks) = 1

Occurrences(seq, x) == Cardinality({k \in 1..Len(seq) : seq[k] = x})

\* the mappers the claim lists: ring and compass, scrollbar indicator,
\* background colour, panel animator, title-box phases, globe camera
ClaimedMappers ==
    {"updateProgressSystem", "updateScrollbar", "updateBackgroundTransition",
     "updatePanelAnimations", "updateTitleBoxing", "updateGlobeScroll"}

\* C4 as stated: every run of the frame callback invokes each of the six
\* visual mappers exactly once.
C4_AsStated ==
    runsThisFrame >= 1 => \A m \in ClaimedMappers : Occurrences(lastCalls, m) = 1

TitlePhases == {"idle", "boxing", "boxed", "moved", "scrollable"}

BranchApplies(phase, p) ==
    CASE phase = "idle" -> IdleBranch(p)
      [] phase = "boxing" -> BoxingBranch(p)
      [] phase = "boxed" -> BoxedBranch(p)
      [] phase = "moved" -> MovingBranch(p)
      [] phase = "scrollable" -> ScrollableBranch(p)

TitleUpdated == titleBox.state.isInitialized /\ titleHistory.progress # Unset

\* C5 as stated: for the progress of every update exactly one phase branch
\* applies, and the recorded phase is the one that branch names.
C5_AsStated ==
    TitleUpdated =>
        /\ Cardinality({ph \in TitlePhases : BranchApplies(ph, titleHistory.progress)}) = 1
        /\ BranchApplies(titleBox.state.currentPhase, titleHistory.progress)

\* the part of C5 that holds: on every progress that is a number
C5_NumericProgress ==
    (TitleUpdated /\ ~IsNaN(titleHistory.progress)) =>
        /\ Cardinality({ph \in TitlePhases : BranchApplies(ph, titleHistory.progress)}) = 1
        /\ BranchApplies(titleBox.state.currentPhase, titleHistory.progress)

\* progress has risen from 0 to 1, one update at every stop
RiseComplete ==
    /\ layout.scrollHeight > layout.innerHeight
    /\ titleBox.state.isInitialized
    /\ titleHistory.idx = Len(RiseStops(layout))

\* C6 as stated: a rise from 0 to 1 passes through idle, boxing, boxed,
\* moving, scrollable in that order, each phase being active at some stop.
C6_AsStated ==
    RiseComplete => titleHistory.trail = <<"idle", "boxing", "boxed", "moved", "scrollable">>

\* the part of C6 that holds: the rise meets idle, boxing, moving, scrollable
C6_FourPhases ==
    RiseComplete => titleHistory.trail = <<"idle", "boxing", "moved", "scrollable">>

\* C7: a panel's link stagger sequence starts at most once between two
\* off-screen judgements, and it has started (again) by the end of the first
\* update that judges the panel fully visible after an off-screen judgement.
C7_StaggerOncePerEntry ==
    \A i \in DOMAIN startsSinceOff :
        /\ startsSinceOff[i] <= 1
        /\ lastJudgement[i] = "full" => startsSinceOff[i] = 1

\* the sequence of panel 1 was started, the panel left the viewport, and the
\* sequence was started again while the first one was still running
C7_Witness ==
    /\ <<1, 2>> \in DOMAIN timers
    /\ timers[<<1, 1>>] > 0
    /\ timers[<<1, 2>>] > 0
    /\ lastJudgement[1] = "full"

----------------------------------------------------------------------------
(* Claims about fetchCableData (SpecFetch) *)

Failures == {"network-error", "http-status", "unparsable"}

MaxAttempts == 1 + Len(proxyUrls)

AllAttemptsFailed ==
    /\ Len(requestLog) = MaxAttempts
    /\ \A k \in 1..Len(requestLog) : requestLog[k].outcome \in Failures

\* C8: when the direct request and every proxy request have failed, by
\* rejection, by a non-ok status or by an unparsable body, the promise of
\* fetchCableData is resolved with the embedded fallback dataset; it is
\* not rejected.
C8_FallbackWhenAllFail ==
    AllAttemptsFailed =>
        /\ fetchPc = "done"
        /\ fetchResult.status = "resolved"
        /\ fetchResult.value = mockData
        /\ Len(fetchResult.value.features) = 5

C8_Witness ==
    /\ AllAttemptsFailed
    /\ fetchResult.status = "resolved"
    /\ \A f \in Failures : \E k \in 1..Len(requestLog) : requestLog[k].outcome = f

ChainOrder ==
    <<"direct", "http-proxy.vastur.com", "cors-anywhere.herokuapp.com",
      "api.allorigins.win", "corsproxy.io">>

\* C9: requests go out strictly one after the other, the direct one first
\* and then the proxies in list order; a request is issued only once the
\* one before it has settled as a failure; never are two requests in flight
\* together; and nothing is issued after an attempt has succeeded.
C9_SequentialAttempts ==
    /\ Cardinality(inFlight) <= 1
    /\ Len(requestLog) <= Len(ChainOrder)
    /\ \A k \in 1..Len(requestLog) :
           /\ requestLog[k].target[1] = ChainOrder[k]
           /\ k < Len(requestLog) => requestLog[k].outcome \in Failures
    /\ \A k \in 1..Len(requestLog) :
           requestLog[k].outcome = "ok" => k = Len(requestLog) /\ inFlight = {}
    /\ \A k \in 1..Len(requestLog) :
           requestLog[k].outcome = "pending" <=> requestLog[k].target \in inFlight

C9_Witness ==
    /\ Len(requestLog) = Len(ChainOrder)
    /\ requestLog[Len(requestLog)].outcome = "ok"
    /\ fetchPc = "done"
    /\ inFlight = {}

FetchDoneRight ==
    fetchPc = "done" =>
        /\ fetchResult.status = "resolved"
        /\ Len(requestLog) \in 1..MaxAttempts
        /\ \A j, k \in 1..Len(requestLog) :
               j # k => requestLog[j].target # requestLog[k].target
        /\ IF requestLog[Len(requestLog)].outcome = "ok"
           THEN /\ ~ParseBody(attempt, response.body).throws
                /\ fetchResult.value = ParseBody(attempt, response.body).value
                /\ attempt = Len(requestLog) - 1
           ELSE fetchResult.value = mockData

\* C10: provided every attempt settles, the promise of fetchCableData is
\* settled in the end; it is never rejected; it is resolved with the parsed
\* body of the first attempt that succeeded, or with the fallback dataset
\* when none did; and that takes at most one direct attempt and one attempt
\* per configured proxy (four), no attempt being made twice.
C10_AlwaysResolves ==
    /\ [](fetchResult.status # "rejected")
    /\ [](fetchResult.status = "pending" <=> fetchPc # "done")
    /\ []FetchDoneRight
    /\ <>(fetchPc = "done")

C10_Witness ==
    /\ fetchPc = "done"
    /\ fetchResult.status = "resolved"
    /\ Len(requestLog) = 4
    /\ requestLog[4].outcome = "ok"
    /\ requestLog[4].target[1] = "api.allorigins.win"
    /\ requestLog[1].outcome = "unparsable"
    /\ fetchResult.value.features = <<"Remote Cable">>

----------------------------------------------------------------------------
(* Claims about missing markup hooks (SpecHooks) *)

HookFrameDone == progressImpl = "current"

LogoHooksPresent ==
    /\ {"hero-image", "master-background"} \subseteq hooks
    /\ \E i \in 1..Len(layout.panels) : layout.panels[i].kind \in PanelKinds

TitleProgressIsNumber == layout.scrollHeight - layout.innerHeight # 0

----------------------------------------------------------------------------
(* Claims about scroll progress and the scrollbar indicator (SpecScroll) *)

ScrollableHeight == layout.scrollHeight - layout.innerHeight

\* C12 as stated: with a scrollable height of zero every computation of
\* scroll progress from the raw offset yields 0, and for negative offsets
\* and overscroll it yields a value in [0,1].
C12_AsStated ==
    scrollData.by # "none" =>
        /\ ScrollableHeight = 0 => JsEq(scrollData.progress, Num(0))
        /\ InUnitInterval(scrollData.progress)

\* the part of C12 that holds: the two clamped computations stay in [0,1]
\* on a page that can scroll
C12_ClampedWhenScrollable ==
    (scrollData.by \in {"updateScrollEffects", "calculateScrollData"} /\ ScrollableHeight > 0)
        => InUnitInterval(scrollData.progress)

IndicatorWritten == passedProgress # Unset /\ "scroll-indicator" \in hooks

InBand(x) ==
    JsGe(x, Num(indicatorMinPosition)) /\ JsGe(Num(indicatorMaxPosition), x)

\* C14 as stated: for every progress handed to updateScrollbar the top of
\* the indicator lies in [2, 96], and it is 2 + 94 * progress when the
\* progress is in [0,1].
C14_AsStated ==
    IndicatorWritten =>
        /\ InBand(indicatorTop)
        /\ InUnitInterval(passedProgress)
               => JsEq(indicatorTop, JsAdd(Num(2), JsMul(Num(94), passedProgress)))

\* the part of C14 that holds: for every progress that is a number
C14_NumericProgress ==
    (IndicatorWritten /\ ~IsNaN(passedProgress)) =>
        /\ InBand(indicatorTop)
        /\ InUnitInterval(passedProgress)
               => JsEq(indicatorTop, JsAdd(Num(2), JsMul(Num(94), passedProgress)))

----------------------------------------------------------------------------
(* Claims about the end anchor (SpecProgress) *)

\* the order in which calculateContentProgress meets the tracked panels
EncounterOrder ==
    querySelectorAll(layout, "small") \o querySelectorAll(layout, "large")
        \o querySelectorAll(layout, "menu")

IsLowestFirstMet(i) ==
    /\ i \in 1..Len(layout.panels)
    /\ \A j \in 1..Len(layout.panels) :
           /\ layout.panels[j].bottom <= layout.panels[i].bottom
           /\ (j # i /\ layout.panels[j].bottom = layout.panels[i].bottom)
                  => IndexOf(EncounterOrder, i) < IndexOf(EncounterOrder, j)

AnchorIsLowest ==
    IF Len(layout.panels) = 0 THEN progressData.lastPanel = 0
    ELSE IsLowestFirstMet(progressData.lastPanel)

C13_EarlierCopy == progressImpl = "legacy" => AnchorIsLowest

----------------------------------------------------------------------------
(* Claims about the scrollbar markings (SpecMarks) *)

MarksCreated == initTimers = <<>> /\ "ruler-markings" \in hooks

IsClickable(mark) == mark.cls = "ruler-mark long clickable-mark"

IsDecorative(mark) == mark.cls = "ruler-mark short"

ClickableMarks == SelectSeq(rulerMarks, IsClickable)

DecorativeMarks == SelectSeq(rulerMarks, IsDecorative)

SectionCount == Len(layout.sections)

HeadingTop(k) ==
    IF layout.sections[k].h1 THEN layout.sections[k].h1Top ELSE layout.sections[k].top

\* clamp(2 + 94 * max(0, headingTop - 0.2 * viewport) / scrollableHeight, 2, 96)
ExpectedMarker(headingTop) ==
    LET travelled == MathMax(Num(0), JsSub(Num(headingTop), JsDiv(2 * layout.innerHeight, 10)))
        raw == JsAdd(Num(2), JsQuot(JsMul(Num(94), travelled), Num(ScrollableHeight)))
    IN  IF JsLt(raw, Num(2)) THEN Num(2) ELSE IF JsLt(Num(96), raw) THEN Num(96) ELSE raw

C16_NoSectionsEmptyTrack ==
    (MarksCreated /\ SectionCount = 0) => rulerMarks = <<>>

C16_Witness ==
    /\ MarksCreated
    /\ SectionCount = 0
    /\ layout.staleMarks # <<>>
    /\ rulerMarks = <<>>

\* C17: when the scrollable height is 0 every section marker stands at the
\* track minimum, 2%, whatever the heading offset; the quotient by the
\* scrollable height is not taken.
C17_ZeroHeightMarkersAtMinimum ==
    (MarksCreated /\ SectionCount >= 1 /\ ScrollableHeight = 0) =>
        \A k \in 1..SectionCount : ClickableMarks[k + 1].top = Num(2)

\* one heading above and one below the target offset: 0/0 and x/0
C17_Witness ==
    /\ MarksCreated
    /\ ScrollableHeight = 0
    /\ SectionCount = 2
    /\ 5 * HeadingTop(1) < layout.innerHeight
    /\ 5 * HeadingTop(2) > layout.innerHeight
    /\ ClickableMarks[2].top = Num(2)
    /\ ClickableMarks[3].top = Num(2)

DecorativeCandidates == {JsAdd(Num(2), JsDiv(94 * i, 40)) : i \in 1..39}

\* C18: after createScrollbarMarkings no decorative marker lies within 2
\* percentage points of the placed (clamped) position of a clickable marker,
\* the return-to-top marker included, and every decorative marker stands at
\* one of the 39 positions 2 + i * 94/40, i = 1..39.
C18_DecorativeKeepDistance ==
    (MarksCreated /\ SectionCount >= 1) =>
        /\ \A d \in 1..Len(DecorativeMarks) :
               /\ DecorativeMarks[d].top \in DecorativeCandidates
               /\ \A c \in 1..Len(ClickableMarks) :
                      ~JsLt(MathAbs(JsSub(DecorativeMarks[d].top, ClickableMarks[c].top)),
                            Num(2))
        /\ Len(DecorativeMarks) <= 39

\* a section marker at 33.33%: the candidates at 32.55% and 34.9% are left out
C18_Witness ==
    /\ MarksCreated
    /\ SectionCount = 1
    /\ ScrollableHeight = 3
    /\ ClickableMarks[2].top = <<100, 3>>
    /\ Len(DecorativeMarks) = 37

----------------------------------------------------------------------------
(* Claims about clicks on the marks (SpecClick) *)

ClickedMark == rulerMarks[scrollRequest.by]

ClickCompleted == scrollRequest.by # 0 /\ scrollRequest.done

\* the heading of the clicked mark stands at 20% of the viewport height
HeadingAtTarget == 5 * (ClickedMark.h1AbsoluteTop - pageYOffset) = layout.innerHeight

\* C19 as stated: once the scroll after a click on a section marker has
\* completed, the heading of that section stands at 20% of the viewport
\* height, for every section; a click on the return-to-top marker scrolls to 0.
C19_AsStated ==
    ClickCompleted =>
        IF ClickedMark.click = "top" THEN pageYOffset = 0 ELSE HeadingAtTarget

\* the offsets at which the page can show the heading at 20% of the viewport
HeadingWithinReach ==
    /\ 5 * ClickedMark.h1AbsoluteTop >= layout.innerHeight
    /\ 5 * (ClickedMark.h1AbsoluteTop - ScrollableHeight) <= layout.innerHeight

\* C19 amended: the heading stands at 20% of the viewport height when the
\* page can scroll that far; a heading less than 20% of the viewport below
\* the top of the page leaves the page at offset 0, one too close to the end
\* leaves it at its last offset; the return-to-top marker scrolls to 0.
C19_HeadingWithinReach ==
    ClickCompleted =>
        IF ClickedMark.click = "top" THEN pageYOffset = 0
        ELSE /\ HeadingWithinReach => HeadingAtTarget
             /\ 5 * ClickedMark.h1AbsoluteTop < layout.innerHeight => pageYOffset = 0
             /\ 5 * (ClickedMark.h1AbsoluteTop - ScrollableHeight) > layout.innerHeight
                    => pageYOffset = ScrollableHeight

C19_Witness ==
    /\ ClickCompleted
    /\ ClickedMark.click = "section"
    /\ HeadingWithinReach
    /\ pageYOffset > 0
    /\ HeadingAtTarget

----------------------------------------------------------------------------
(* Claims about the background colour (SpecBackground) *)

BackgroundWritten == backgroundColor.body.fn = "rgb"

Rgb(r, g, b) == [fn |-> "rgb", r |-> Num(r), g |-> Num(g), b |-> Num(b)]

\* c is an integer within half a unit of the linear blend of c1 and c2 at
\* progress p between the stops s1 and s2, and between c1 and c2
IsRoundedBlend(c, c1, c2, p, s1, s2) ==
    LET blend == JsAdd(Num(c1), JsQuot(JsMul(Num(c2 - c1), JsSub(p, s1)), JsSub(s2, s1)))
        twice == JsMul(Num(2), MathAbs(JsSub(c, blend)))
    IN  /\ c[2] = 1
        /\ ~JsLt(Num(1), twice)
        /\ c[1] >= (IF c1 < c2 THEN c1 ELSE c2)
        /\ c[1] <= (IF c1 < c2 THEN c2 ELSE c1)

BlendBetween(i, p) ==
    /\ IsRoundedBlend(backgroundColor.body.r, colors[i].r, colors[i + 1].r, p,
                      colorStops[i], colorStops[i + 1])
    /\ IsRoundedBlend(backgroundColor.body.g, colors[i].g, colors[i + 1].g, p,
                      colorStops[i], colorStops[i + 1])
    /\ IsRoundedBlend(backgroundColor.body.b, colors[i].b, colors[i + 1].b, p,
                      colorStops[i], colorStops[i + 1])

\* C20: calculateBackgroundColor returns black at progress 0, rgb(15, 0, 107)
\* at 0.4 and rgb(62, 116, 255) at 1, black for every progress below 0 and
\* rgb(62, 116, 255) for every progress above 1; between two adjacent stops
\* each channel is the rounded linear blend of the two bounding colours and
\* lies between them.
C20_StopsAndBlend ==
    BackgroundWritten /\ ~IsNaN(passedProgress) =>
        LET p == passedProgress
            c == backgroundColor.body
        IN  /\ JsEq(p, Num(0)) => c = Rgb(0, 0, 0)
            /\ JsEq(p, <<2, 5>>) => c = Rgb(15, 0, 107)
            /\ JsEq(p, Num(1)) => c = Rgb(62, 116, 255)
            /\ JsLt(p, Num(0)) => c = Rgb(0, 0, 0)
            /\ JsLt(Num(1), p) => c = Rgb(62, 116, 255)
            /\ JsLt(Num(0), p) /\ JsLt(p, <<2, 5>>) => BlendBetween(1, p)
            /\ JsLt(<<2, 5>>, p) /\ JsLt(p, Num(1)) => BlendBetween(2, p)

\* a blend in the second segment that is neither of its two stop colours
C20_Witness ==
    /\ BackgroundWritten
    /\ JsLt(<<2, 5>>, passedProgress)
    /\ JsLt(passedProgress, Num(1))
    /\ backgroundColor.body \notin {Rgb(15, 0, 107), Rgb(62, 116, 255)}
    /\ BlendBetween(2, passedProgress)
----------------------------------------------------------------------------
(* Claims about the progress ring and the compass (SpecRing) *)

ProgressUpdated == progressImpl = "current"

\* 565.48, the circumference of the ring
Circumference == <<56548, 100>>

\* C21: after every updateProgressSystem call the ring's stroke offset is
\* circumference * (1 - progress) and the compass angle is 360 * progress for
\* the progress of that call, whatever the calls before it wrote: the full
\* circumference and 0 degrees at progress 0, 180 degrees at progress 0.5,
\* offset 0 and 360 degrees at progress 1.
C21_RingAndCompassFollowProgress ==
    ProgressUpdated =>
        LET p == progressData.smoothProgress
        IN  /\ "progress-circle" \in hooks =>
                /\ JsEq(ringOffset, JsMul(Circumference, JsSub(Num(1), p)))
                /\ p = Num(0) => JsEq(ringOffset, Circumference)
                /\ p = Num(1) => JsEq(ringOffset, Num(0))
            /\ "compass-outer" \in hooks =>
                /\ JsEq(compassAngle, JsMul(Num(360), p))
                /\ p = <<1, 2>> => JsEq(compassAngle, Num(180))
                /\ p = Num(1) => JsEq(compassAngle, Num(360))

\* a call at progress 0.5 that follows a call at progress 1
C21_Witness ==
    /\ ProgressUpdated
    /\ hooks = AllHooks
    /\ priorProgress = Num(1)
    /\ progressData.smoothProgress = <<1, 2>>
    /\ compassAngle = Num(180)
    /\ JsEq(ringOffset, <<28274, 100>>)
----------------------------------------------------------------------------
(* Claims about the panel animation progress (SpecPanel) *)

PanelRect == getBoundingClientRect(layout, pageYOffset, 1)

\* twice the distance of the panel's centre below the top of the viewport
TwiceCentre == 2 * PanelRect.top + PanelRect.height

PartlyInViewport == PanelRect.bottom > 0 /\ PanelRect.top < layout.innerHeight

EntirelyOutside == PanelRect.bottom <= 0 \/ PanelRect.top >= layout.innerHeight

\* C22: the progress calculatePanelAnimation returns lies in [0,1]; it is 1
\* when the panel is partly in the viewport with its centre at or above the
\* midpoint, 1 - (centre - midpoint) / (viewport height - midpoint) while the
\* centre is between the midpoint and the lower edge, and 0 when the panel is
\* entirely outside the viewport; the opacity written is 0.2 + 0.8 * progress
\* and lies in [0.2, 1].
C22_PanelProgressAndOpacity ==
    animationData # <<>> =>
        LET p == animationData[1].animationProgress
            vh == layout.innerHeight
            opacity == panelStyle[1].opacity
        IN  /\ InUnitInterval(p)
            /\ PartlyInViewport /\ TwiceCentre <= vh => p = Num(1)
            /\ PartlyInViewport /\ vh < TwiceCentre /\ TwiceCentre <= 2 * vh =>
                   JsEq(p, <<2 * vh - TwiceCentre, vh>>)
            /\ EntirelyOutside => p = Num(0)
            /\ JsEq(opacity, JsAdd(<<1, 5>>, JsMul(<<4, 5>>, p)))
            /\ JsGe(opacity, <<1, 5>>)
            /\ JsGe(Num(1), opacity)

\* a panel fading: its centre strictly between the midpoint and the lower edge
C22_Witness ==
    /\ animationData # <<>>
    /\ PartlyInViewport
    /\ layout.innerHeight < TwiceCentre
    /\ TwiceCentre < 2 * layout.innerHeight
    /\ JsLt(Num(0), animationData[1].animationProgress)
    /\ JsLt(animationData[1].animationProgress, Num(1))
    /\ JsLt(panelStyle[1].opacity, Num(1))
----------------------------------------------------------------------------
(* Claims about the properties the mappers write (SpecWrites) *)

\* C23: no (element, property) pair is written by two different mapper
\* modules: the sets of pairs the mappers have written are pairwise disjoint.
C23_MapperWritesDisjoint ==
    \A m1, m2 \in Mappers : m1 # m2 => writeLog[m1] \cap writeLog[m2] = {}

\* every mapper has written, the logo mover and the background both on
\* .master-background
C23_Witness ==
    /\ \A m \in Mappers : writeLog[m] # {}
    /\ <<".master-background", "style.transform">> \in writeLog["scrollBehavior"]
    /\ <<".master-background", "style.background">> \in writeLog["backgroundTransition"]
    /\ <<"#animated-title-box", "style.transition">> \in writeLog["titleBoxing"]
----------------------------------------------------------------------------
(* Claims about the link reset (Spec) *)

\* C24 as stated: from the update that judges a panel off-screen until an
\* update that judges it fully visible, none of its links carries the
\* animate-in class, whatever timers of earlier updates are still pending.
C24_AsStated ==
    \A i \in DOMAIN startsSinceOff :
        startsSinceOff[i] = 0 => linkClasses[i] = {}
----------------------------------------------------------------------------
(* Claims about the title box under any sequence of progress values (SpecTitle) *)

InMovingPhase == titleBox.state.isInitialized /\ titleBox.state.currentPhase = "moved"

\* C25 as stated: while the title box is in its moving phase, the start
\* position its last update interpolated from is the one captured by the
\* update that entered the phase.
C25_AsStated ==
    InMovingPhase /\ moveStart.used # Unset => moveStart.used = moveStart.entry

\* C30 as stated: after every updateTitleBoxing call the class 'boxing' is on
\* the title box only while the phase is boxing, and never together with the
\* class 'boxed'.
C30_AsStated ==
    (TitleUpdated /\ "boxing" \in titleBox.classes) =>
        /\ titleBox.state.currentPhase = "boxing"
        /\ "boxed" \notin titleBox.classes
----------------------------------------------------------------------------
(* Claims about markers and indicator (SpecAlign) *)

\* a frame update that runs once the scroll a section marker asked for has completed
FrameAfterSectionClick ==
    /\ ClickCompleted
    /\ ClickedMark.click = "section"
    /\ AlignFrame

\* C26 as stated: once the page has scrolled to the offset that a click on a
\* section marker asks for, the coordinator places the scroll indicator at
\* the position of that marker, also when the offset is limited by the top
\* or the bottom of the document.
C26_AsStated ==
    [][FrameAfterSectionClick => JsEq(indicatorTop', ClickedMark.top)]_vars

\* the part of C26 that holds: on every page that can scroll
C26_WhenScrollable ==
    [][FrameAfterSectionClick /\ ScrollableHeight > 0
           => JsEq(indicatorTop', ClickedMark.top)]_vars

\* the indicator on the marker of a heading below the top of the page
C26_Aligned ==
    /\ ClickCompleted
    /\ ClickedMark.click = "section"
    /\ pageYOffset > 0
    /\ JsEq(indicatorTop, ClickedMark.top)
----------------------------------------------------------------------------
(* Claims about scroll events and frames (SpecLive) *)

ScrollUnanswered == scrollsSinceFrame > 0

\* updateScrollEffects has run and no scroll event has arrived since
EffectsCurrent == lastCalls = UpdateScrollEffectsCalls /\ scrollsSinceFrame = 0

\* the indicator stands where the current offset puts it
IndicatorAtOffset ==
    JsEq(indicatorTop, JsAdd(Num(2), JsDiv(94 * pageYOffset, ScrollableHeight)))

\* C27: every scroll event is eventually followed by a run of
\* updateScrollEffects, and a run leaves the effects of the offset current
\* at the run: while no scroll event has arrived since the last run the
\* indicator stands where the page's offset puts it.
C27_ScrollEventuallyReflected ==
    /\ ScrollUnanswered ~> ~ScrollUnanswered
    /\ [](EffectsCurrent => IndicatorAtOffset)

\* a frame has answered a burst of scroll events that ended below the top
C27_Witness ==
    /\ EffectsCurrent
    /\ runsThisFrame = 1
    /\ pageYOffset > 0
    /\ IndicatorAtOffset

----------------------------------------------------------------------------
(* Claims about the globe (SpecGlobe, SpecGlobeSettles) *)

\* the calls suspended inside the try block
CallsInProgress == {c \in 1..MaxCalls : initCalls[c] \in {"import", "delay"}}

FailedCalls == {c \in 1..MaxCalls : initCalls[c] = "failed"}

\* call c starts in this step
Starts(c) == initCalls[c] = "new" /\ initCalls'[c] # "new"

\* call c fails in this step
Fails(c) == initCalls[c] # "failed" /\ initCalls'[c] = "failed"

OneGlobeAtATime ==
    /\ Cardinality(documentContainers) <= 1
    /\ Cardinality(CallsInProgress) <= 1
    /\ Cardinality(instances) <= 1 + destroys
    /\ created <= 1 + destroys + Cardinality(FailedCalls)
    /\ initializationInProgress <=> CallsInProgress # {}

\* C28: under every interleaving of initializeGlobeBackground calls at most
\* one globe container is in the document and at most one call is inside
\* the initialisation; without destroyGlobe or a failure no second container
\* or instance is ever made. A call that starts while an initialisation is
\* in progress or after one has succeeded returns and changes nothing of the
\* globe; a call that fails leaves both guard flags cleared.
C28_SingleGlobe ==
    /\ []OneGlobeAtATime
    /\ [][\A c \in 1..MaxCalls :
              /\ Starts(c) /\ GuardReturns =>
                    /\ initCalls'[c] = "skipped"
                    /\ UNCHANGED <<Globe, globe, globeContainer, isInitialized, cablesLoaded,
                                   initializationInProgress, documentContainers, created,
                                   instances, cableLoads>>
              /\ Fails(c) => ~initializationInProgress' /\ ~isInitialized']_vars

\* one call failed, a later one succeeded, and one was turned away
C28_Witness ==
    \E a, b, c \in 1..MaxCalls :
        /\ initCalls[a] = "failed"
        /\ initCalls[b] = "succeeded"
        /\ initCalls[c] = "skipped"
        /\ Cardinality(documentContainers) = 1
        /\ created = 2

\* C29: every globe instance brought up eventually has the cable paths
\* applied to it, given that the dataset yields at least one path.
C29_AsStated ==
    \A g \in 1..MaxCalls :
        [](g \in instances /\ dataset >= 1 => <>(cableLoads[g] = "applied"))

\* the load of an instance made after destroyGlobe has returned at its
\* cablesLoaded check although the dataset has paths
C29_SecondInstanceBare ==
    \E g \in instances :
        /\ cableLoads[g] = "skipped"
        /\ dataset >= 1
        /\ destroys >= 1
        /\ globe = g

====
